---- MODULE Spec2Model ----
(***************************************************************************)
(* French morphology and contraction engine (src/constants.ts) and the     *)
(* sentence assembly of GameScreen (src/unnamed/part_000).                 *)
(*                                                                         *)
(* A text is a sequence of characters, each character a one-element        *)
(* string, so that slicing, lower-casing, prefix tests and the regular     *)
(* expressions of applyFrenchElision are computed character by character.  *)
(***************************************************************************)
EXTENDS Integers, Sequences, FiniteSets, TLC

\* Longest slot sequence handed to the merge loop.
MaxLen == 4

\* Largest number of successive applications of generateVariations.
MaxInflect == 2

\* Longest slot sequence of a round, number of slots appended over the
\* rounds, and number of timeouts pending at the start of a round.
MaxSlots == 3
MaxIds == 3
MaxTimers == 1

\* Largest number of sentences the validator accepts in one game.
MaxSentences == 11

\* The absent value (null / undefined of the source).
Null == [null |-> TRUE]

-----------------------------------------------------------------------------
(* Characters and strings                                                  *)

UpperChars == <<"A","B","C","D","E","F","G","H","I","J","K","L","M","N","O","P","Q","R","S","T","U","V","W","X","Y","Z","É","È","Ê","À","Î","Ô">>
LowerChars == <<"a","b","c","d","e","f","g","h","i","j","k","l","m","n","o","p","q","r","s","t","u","v","w","x","y","z","é","è","ê","à","î","ô">>

Digits == {"0","1","2","3","4","5","6","7","8","9"}

\* The lower-case letter of every upper-case letter.
LowerOf ==
    [ c \in { UpperChars[k] : k \in DOMAIN UpperChars } |->
        LowerChars[CHOOSE k \in DOMAIN UpperChars : UpperChars[k] = c] ]

\* String.prototype.toLowerCase on one character.
toLowerChar(c) == IF c \in DOMAIN LowerOf THEN LowerOf[c] ELSE c

toLowerCase(s) == [k \in DOMAIN s |-> toLowerChar(s[k])]

\* s.startsWith(p)
startsWith(s, p) == Len(s) >= Len(p) /\ SubSeq(s, 1, Len(p)) = p

\* s.slice(0, -1)
dropLast(s) == IF Len(s) = 0 THEN s ELSE SubSeq(s, 1, Len(s) - 1)

\* s.charAt(0): the empty string when s is empty
charAt0(s) == IF Len(s) = 0 THEN "" ELSE s[1]

\* The class \w of a JavaScript regular expression without the u flag:
\* ASCII letters, digits and underscore. Accented letters are not in it.
WordChars ==
    { UpperChars[k] : k \in 1..26 } \cup { LowerChars[k] : k \in 1..26 }
        \cup Digits \cup {"_"}

IsWordChar(c) == c \in WordChars

\* The class \s, as far as the sentences built here contain it.
IsSpace(c) == c = " "

\* The assertion \b at position p (between s[p-1] and s[p]).
WordBoundary(s, p) ==
    LET before == p > 1 /\ p - 1 <= Len(s) /\ IsWordChar(s[p - 1])
        after  == p >= 1 /\ p <= Len(s) /\ IsWordChar(s[p])
    IN  before # after

\* Case-insensitive match of the literal lit at position p of s.
MatchesAt(s, p, lit) ==
    /\ p + Len(lit) - 1 <= Len(s)
    /\ toLowerCase(SubSeq(s, p, p + Len(lit) - 1)) = lit

\* Number of consecutive whitespace characters of s from position p on.
RECURSIVE SpaceRun(_, _)
SpaceRun(s, p) ==
    IF p <= Len(s) /\ IsSpace(s[p]) THEN 1 + SpaceRun(s, p + 1) ELSE 0

-----------------------------------------------------------------------------
(* SentenceAssembler: the string-level pass applyFrenchElision             *)

\* Variant: "le" is missing from the alternation.
RegexTriggersNoLe ==
    { <<"j","e">>, <<"m","e">>, <<"t","e">>, <<"s","e">>,
      <<"l","a">>, <<"d","e">>, <<"n","e">>, <<"q","u","e">>, <<"c","e">> }

\* Variant: "jusque" is added to the alternation.
RegexTriggersWithJusque ==
    { <<"j","e">>, <<"m","e">>, <<"t","e">>, <<"s","e">>, <<"l","e">>,
      <<"l","a">>, <<"d","e">>, <<"n","e">>, <<"q","u","e">>, <<"c","e">>,
      <<"j","u","s","q","u","e">> }

\* The alternation (je|me|te|se|le|la|de|ne|que|ce) of the first expression.
RegexTriggers ==
    { <<"j","e">>, <<"m","e">>, <<"t","e">>, <<"s","e">>, <<"l","e">>,
      <<"l","a">>, <<"d","e">>, <<"n","e">>, <<"q","u","e">>, <<"c","e">> }

\* The class [aeiouyéàèùâêîôûh] of the first expression.
RegexVowels ==
    {"a","e","i","o","u","y","é","à","è","ù","â","ê","î","ô","û","h"}

\* The trigger alternative that matches at position p of s together with
\* \b before it, \s+ after it and a character of the class after that;
\* the empty set when the expression does not match at p.
ElisionMatchAt(s, p) ==
    IF ~WordBoundary(s, p) THEN {}
    ELSE { t \in RegexTriggers :
             /\ MatchesAt(s, p, t)
             /\ SpaceRun(s, p + Len(t)) >= 1
             /\ p + Len(t) + SpaceRun(s, p + Len(t)) <= Len(s)
             /\ toLowerChar(s[p + Len(t) + SpaceRun(s, p + Len(t))]) \in RegexVowels }

\* Variant: the trigger keeps its final character.
ElisionReplacerNoSlice(match, p1, p2) ==
    LET word     == toLowerCase(p1)
        nextChar == toLowerCase(p2)
    IN  IF word = <<"c","e">>
        THEN IF nextChar = <<"e">> \/ nextChar = <<"é">>
             THEN p1 \o <<"'">> \o p2
             ELSE match
        ELSE p1 \o <<"'">> \o p2

\* The replacement callback of the first expression.
ElisionReplacer(match, p1, p2) ==
    LET word     == toLowerCase(p1)
        nextChar == toLowerCase(p2)
    IN  IF word = <<"c","e">>
        THEN IF nextChar = <<"e">> \/ nextChar = <<"é">>
             THEN dropLast(p1) \o <<"'">> \o p2
             ELSE match
        ELSE dropLast(p1) \o <<"'">> \o p2

\* String.prototype.replace with the first expression (flags g, i), from
\* position p on: matches are found left to right and do not overlap.
RECURSIVE ElisionPass(_, _)
ElisionPass(s, p) ==
    IF p > Len(s) THEN <<>>
    ELSE LET m == ElisionMatchAt(s, p)
         IN  IF m # {}
             THEN LET t == CHOOSE x \in m : TRUE
                      q == p + Len(t) + SpaceRun(s, p + Len(t))
                  IN  ElisionReplacer(SubSeq(s, p, q), SubSeq(s, p, p + Len(t) - 1), <<s[q]>>)
                          \o ElisionPass(s, q + 1)
             ELSE <<s[p]>> \o ElisionPass(s, p + 1)

\* The second expression \b(si)\s+(il) matches at position p of s.
SiMatchAt(s, p) ==
    /\ WordBoundary(s, p)
    /\ MatchesAt(s, p, <<"s","i">>)
    /\ SpaceRun(s, p + 2) >= 1
    /\ MatchesAt(s, p + 2 + SpaceRun(s, p + 2), <<"i","l">>)

\* String.prototype.replace with the second expression (flags g, i).
RECURSIVE SiPass(_, _)
SiPass(s, p) ==
    IF p > Len(s) THEN <<>>
    ELSE IF SiMatchAt(s, p)
    THEN LET q == p + 2 + SpaceRun(s, p + 2)
         IN  <<"s","'">> \o SubSeq(s, q, q + 1) \o SiPass(s, q + 2)
    ELSE <<s[p]>> \o SiPass(s, p + 1)

applyFrenchElision(sentence) == SiPass(ElisionPass(sentence, 1), 1)

-----------------------------------------------------------------------------
(* Data model: Word and SentenceSlot                                       *)

\* The members of enum PartOfSpeech used by the lexicon below.
SUBJECT     == "Subject"
VERB        == "Verb"
VERB_AUX    == "Auxiliary"
ARTICLE     == "Article"
NOUN        == "Noun"
PREPOSITION == "Preposition"
CONNECTOR   == "Connector"
NEGATION    == "Negation"
OBJECT      == "Object"

\* createWord: key stands for the id `${text}-${type}-${random}`. An id is a
\* sequence of such keys and of "+" signs, a translation a sequence of
\* glosses and of " + " separators, so that the concatenations of a merge
\* are concatenations here too.
createWord(key, text, type, translation, tags) ==
    [ id          |-> <<key>>,
      text        |-> text,
      type        |-> type,
      translation |-> translation,
      tags        |-> tags ]

\* word.tags || []
tagsOrEmpty(word) == IF "tags" \in DOMAIN word THEN word.tags ELSE <<>>

-----------------------------------------------------------------------------
(* ElisionEngine: shouldElide and findElisionCandidate                     *)

\* Variant: a trigger that begins with a vowel ("il") is added.
elisionTriggersWithIl ==
    { <<"j","e">>, <<"m","e">>, <<"t","e">>, <<"s","e">>, <<"l","e">>,
      <<"l","a">>, <<"d","e">>, <<"n","e">>, <<"q","u","e">>,
      <<"j","u","s","q","u","e">>, <<"s","i">>, <<"c","e">>, <<"i","l">> }

elisionTriggers ==
    { <<"j","e">>, <<"m","e">>, <<"t","e">>, <<"s","e">>, <<"l","e">>,
      <<"l","a">>, <<"d","e">>, <<"n","e">>, <<"q","u","e">>,
      <<"j","u","s","q","u","e">>, <<"s","i">>, <<"c","e">> }

vowels == {"a","e","i","o","u","y","h","é","è","ê"}

\* Variant: the restriction on "ce" is left out.
shouldElideAnyCe(s1, s2) ==
    IF s1.value = Null \/ s2.value = Null THEN FALSE
    ELSE LET w1 == toLowerCase(s1.value.text)
             w2 == toLowerCase(s2.value.text)
         IN  IF w1 \notin elisionTriggers THEN FALSE
             ELSE IF charAt0(w2) \notin vowels THEN FALSE
             ELSE IF w1 = <<"s","i">> /\ ~startsWith(w2, <<"i","l">>) THEN FALSE
             ELSE TRUE

\* Variant: the second word is not required to begin with a vowel.
shouldElideAnyInitial(s1, s2) ==
    IF s1.value = Null \/ s2.value = Null THEN FALSE
    ELSE LET w1 == toLowerCase(s1.value.text)
             w2 == toLowerCase(s2.value.text)
         IN  IF w1 \notin elisionTriggers THEN FALSE
             ELSE IF w1 = <<"s","i">> /\ ~startsWith(w2, <<"i","l">>) THEN FALSE
             ELSE IF /\ w1 = <<"c","e">>
                     /\ ~startsWith(w2, <<"e","s","t">>)
                     /\ ~startsWith(w2, <<"é","t">>) THEN FALSE
             ELSE TRUE

shouldElide(s1, s2) ==
    IF s1.value = Null \/ s2.value = Null THEN FALSE
    ELSE LET w1 == toLowerCase(s1.value.text)
             w2 == toLowerCase(s2.value.text)
         IN  IF w1 \notin elisionTriggers THEN FALSE
             ELSE IF charAt0(w2) \notin vowels THEN FALSE
             ELSE IF w1 = <<"s","i">> /\ ~startsWith(w2, <<"i","l">>) THEN FALSE
             ELSE IF /\ w1 = <<"c","e">>
                     /\ ~startsWith(w2, <<"e","s","t">>)
                     /\ ~startsWith(w2, <<"é","t">>) THEN FALSE
             ELSE TRUE

\* Variant: the prefix is taken from the lower-cased first word.
mergedTextLowerPrefix(w1, w2) == dropLast(toLowerCase(w1)) \o <<"'">> \o w2

\* const mergedText = `${prefix}'${w2}` with prefix = w1.slice(0, -1)
mergedText(w1, w2) == dropLast(w1) \o <<"'">> \o w2

\* Variant: the tags of the second word are dropped.
mergedWordFirstTags(current, next) ==
    [ id          |-> current.value.id \o <<"+">> \o next.value.id,
      text        |-> mergedText(current.value.text, next.value.text),
      type        |-> next.value.type,
      translation |-> current.value.translation \o <<" + ">> \o next.value.translation,
      tags        |-> tagsOrEmpty(current.value) ]

mergedWord(current, next) ==
    [ id          |-> current.value.id \o <<"+">> \o next.value.id,
      text        |-> mergedText(current.value.text, next.value.text),
      type        |-> next.value.type,
      translation |-> current.value.translation \o <<" + ">> \o next.value.translation,
      tags        |-> tagsOrEmpty(current.value) \o tagsOrEmpty(next.value) ]

\* Variant: the merged slot keeps the id of the second slot.
mergedSlotSecondId(current, next) ==
    [ id          |-> next.id,
      type        |-> next.type,
      value       |-> mergedWord(current, next),
      placeholder |-> next.placeholder ]

mergedSlot(current, next) ==
    [ id          |-> current.id,
      type        |-> next.type,
      value       |-> mergedWord(current, next),
      placeholder |-> next.placeholder ]

\* Variant: the scan keeps the last qualifying pair instead of the first.
lastElisionIndex(slots) ==
    LET hits == { i \in 0..(Len(slots) - 2) : shouldElide(slots[i + 1], slots[i + 2]) }
    IN  IF hits = {} THEN -1
        ELSE CHOOSE i \in hits : \A j \in hits : i >= j

\* The index the for loop stops at (0-based), or -1 when it runs through.
firstElisionIndex(slots) ==
    LET hits == { i \in 0..(Len(slots) - 2) : shouldElide(slots[i + 1], slots[i + 2]) }
    IN  IF hits = {} THEN -1
        ELSE CHOOSE i \in hits : \A j \in hits : i <= j

findElisionCandidate(slots) ==
    LET i == firstElisionIndex(slots)
    IN  IF i = -1 THEN Null
        ELSE [ index |-> i, mergedSlot |-> mergedSlot(slots[i + 1], slots[i + 2]) ]

\* Variant: the splice removes one slot only.
splice1(slots, index, merged) ==
    SubSeq(slots, 1, index) \o <<merged>> \o SubSeq(slots, index + 2, Len(slots))

\* newSlots.splice(index, 2, merged)
splice2(slots, index, merged) ==
    SubSeq(slots, 1, index) \o <<merged>> \o SubSeq(slots, index + 3, Len(slots))

\* Variant: the texts are joined without a separator.
RECURSIVE joinTextsNoSpace(_)
joinTextsNoSpace(slots) ==
    IF Len(slots) = 0 THEN <<>>
    ELSE (IF slots[1].value = Null THEN <<>> ELSE slots[1].value.text)
             \o joinTextsNoSpace(Tail(slots))

\* slots.map(s => s.value?.text).join(' '): an empty slot contributes ''.
RECURSIVE joinTexts(_)
joinTexts(slots) ==
    IF Len(slots) = 0 THEN <<>>
    ELSE LET first == IF slots[1].value = Null THEN <<>> ELSE slots[1].value.text
         IN  IF Len(slots) = 1 THEN first
             ELSE first \o <<" ">> \o joinTexts(Tail(slots))

-----------------------------------------------------------------------------
(* Lexicon                                                                 *)

\* Words of COMMON_WORDS and TOPIC_POOLS, and the words the specification's
\* examples use, that the merge loop is run on.
wJe   == createWord("Je-Subject", <<"J","e">>, SUBJECT, <<"I">>, <<>>)
wAi   == createWord("ai-Auxiliary", <<"a","i">>, VERB_AUX, <<"have (Je)">>, <<"Je">>)
wUn   == createWord("un-Article", <<"u","n">>, ARTICLE, <<"a (m)">>, <<>>)
wChat == createWord("chat-Noun", <<"c","h","a","t">>, NOUN, <<"cat">>, <<"m","mutable">>)
wLe   == createWord("le-Article", <<"l","e">>, ARTICLE, <<"the (m)">>, <<>>)
wLApo == createWord("l'-Article", <<"l","'">>, ARTICLE, <<"the (vowel)">>, <<>>)
wSi   == createWord("si-Connector", <<"s","i">>, CONNECTOR, <<"if">>, <<>>)
wIl   == createWord("Il-Subject", <<"I","l">>, SUBJECT, <<"He">>, <<>>)
wCe   == createWord("ce-Subject", <<"c","e">>, SUBJECT, <<"it">>, <<>>)

CoreWords == { wJe, wAi, wUn, wChat, wLe, wLApo, wSi, wIl, wCe }

\* The remaining triggers and second words, used in pairs.
wEst     == createWord("est-Auxiliary", <<"e","s","t">>, VERB_AUX, <<"is (Il/Elle)">>, <<"Il","Elle">>)
wNe      == createWord("ne-Negation", <<"n","e">>, NEGATION, <<"not (part 1)">>, <<>>)
wJeLower == createWord("je-Subject", <<"j","e">>, SUBJECT, <<"I">>, <<>>)
wMe      == createWord("me-Object", <<"m","e">>, OBJECT, <<"me">>, <<>>)
wTe      == createWord("te-Object", <<"t","e">>, OBJECT, <<"you">>, <<>>)
wSe      == createWord("se-Object", <<"s","e">>, OBJECT, <<"oneself">>, <<>>)
wLa      == createWord("la-Article", <<"l","a">>, ARTICLE, <<"the (f)">>, <<>>)
wDe      == createWord("de-Preposition", <<"d","e">>, PREPOSITION, <<"of/from/about">>, <<>>)
wQue     == createWord("que-Connector", <<"q","u","e">>, CONNECTOR, <<"that">>, <<>>)
wJusque  == createWord("jusque-Preposition", <<"j","u","s","q","u","e">>, PREPOSITION, <<"until">>, <<>>)
wSiUpper == createWord("Si-Connector", <<"S","i">>, CONNECTOR, <<"if">>, <<>>)
wIlLower == createWord("il-Subject", <<"i","l">>, SUBJECT, <<"he">>, <<>>)
wAvion   == createWord("avion-Noun", <<"a","v","i","o","n">>, NOUN, <<"plane">>, <<"m">>)
wPomme   == createWord("pomme-Noun", <<"p","o","m","m","e">>, NOUN, <<"apple">>, <<"f">>)
wHotel   == createWord("hôtel-Noun", <<"h","ô","t","e","l">>, NOUN, <<"hotel">>, <<"m">>)
wEcole   == createWord("école-Noun", <<"é","c","o","l","e">>, NOUN, <<"school">>, <<"f">>)
wEtait   == createWord("était-Verb", <<"é","t","a","i","t">>, VERB, <<"was">>, <<"Il","Elle">>)
wEtre    == createWord("être-Infinitive", <<"ê","t","r","e">>, "Infinitive", <<"to be (Aux)">>, <<>>)
wEau     == createWord("eau-Noun", <<"e","a","u">>, NOUN, <<"water">>, <<"f">>)
wA       == createWord("à-Preposition", <<"à">>, PREPOSITION, <<"to/at">>, <<>>)
wOnt     == createWord("ont-Auxiliary", <<"o","n","t">>, VERB_AUX, <<"have (Ils/Elles)">>, <<"Ils","Elles">>)
wY       == createWord("y-Object", <<"y">>, OBJECT, <<"there">>, <<>>)
wParceQue == createWord("parce que-Connector", <<"p","a","r","c","e"," ","q","u","e">>, CONNECTOR, <<"because">>, <<>>)
wGraceA  == createWord("grâce à-Connector", <<"g","r","â","c","e"," ","à">>, CONNECTOR, <<"thanks to (positive)">>, <<>>)
wPuisque == createWord("puisque-Connector", <<"p","u","i","s","q","u","e">>, CONNECTOR, <<"since/as">>, <<>>)
wElles   == createWord("Elles-Subject", <<"E","l","l","e","s">>, SUBJECT, <<"They (f)">>, <<>>)

\* A Word built without the optional tags property (types.ts: tags?).
wUne == [ id |-> <<"une-Article">>, text |-> <<"u","n","e">>, type |-> ARTICLE,
          translation |-> <<"a (f)">> ]

\* Words of a generated pack in which an accented letter precedes "me", "le".
wMeme     == createWord("même-Adjective", <<"m","ê","m","e">>, "Adjective", <<"same">>, <<>>)
wProbleme == createWord("problème-Noun", <<"p","r","o","b","l","è","m","e">>, NOUN, <<"problem">>, <<"m">>)
wModele   == createWord("modèle-Noun", <<"m","o","d","è","l","e">>, NOUN, <<"model">>, <<"m">>)

PairWords ==
    CoreWords \cup
    { wEst, wNe, wJeLower, wMe, wTe, wSe, wLa, wDe, wQue, wJusque, wSiUpper, wIlLower,
      wAvion, wPomme, wHotel, wEcole, wEtait, wEtre, wEau, wA, wOnt, wY,
      wParceQue, wGraceA, wPuisque, wElles, wUne, wMeme, wProbleme, wModele }

-----------------------------------------------------------------------------
(* Morphology: generateVariations, generateErVerbs and getVerbForms         *)

VERB_INF  == "Infinitive"
VERB_PP   == "Past Participle"
ADJECTIVE == "Adjective"

\* s.endsWith(suffix)
endsWith(s, suffix) ==
    /\ Len(s) >= Len(suffix)
    /\ SubSeq(s, Len(s) - Len(suffix) + 1, Len(s)) = suffix

\* s.slice(0, -n)
sliceEnd(s, n) == IF Len(s) <= n THEN <<>> ELSE SubSeq(s, 1, Len(s) - n)

\* list.includes(x)
includes(list, x) == \E i \in DOMAIN list : list[i] = x

\* s.replace(pattern, replacement) with a string pattern: the first
\* occurrence only.
RECURSIVE replaceFirst(_, _, _)
replaceFirst(s, pattern, replacement) ==
    IF Len(s) < Len(pattern) THEN s
    ELSE IF SubSeq(s, 1, Len(pattern)) = pattern
    THEN replacement \o SubSeq(s, Len(pattern) + 1, Len(s))
    ELSE <<s[1]>> \o replaceFirst(Tail(s), pattern, replacement)

\* Variant: the "nous" form of a -ger verb is stem + "ons".
generateErVerbsNoGer(root, translationBase) ==
    LET stem == sliceEnd(root, 2)
        nousForm == IF endsWith(root, <<"c","e","r">>)
                    THEN sliceEnd(stem, 1) \o <<"ç","o","n","s">>
                    ELSE stem \o <<"o","n","s">>
        isYer == endsWith(root, <<"y","e","r">>)
        singularStem == IF isYer THEN sliceEnd(stem, 1) \o <<"i">> ELSE stem
        form(text, who, tags) ==
            createWord(text \o <<"-", VERB>>, text, VERB, translationBase \o who, tags)
    IN  << form(singularStem \o <<"e">>, <<" ","(","J","e","/","I","l",")">>, <<"Je","Il","Elle">>),
           form(singularStem \o <<"e","s">>, <<" ","(","T","u",")">>, <<"Tu">>),
           form(nousForm, <<" ","(","N","o","u","s",")">>, <<"Nous">>),
           form(stem \o <<"e","z">>, <<" ","(","V","o","u","s",")">>, <<"Vous">>),
           form(singularStem \o <<"e","n","t">>, <<" ","(","I","l","s","/","E","l","l","e","s",")">>, <<"Ils","Elles">>) >>

\* generateErVerbs: the five present-tense forms of a regular -er verb.
generateErVerbs(root, translationBase) ==
    LET stem == sliceEnd(root, 2)
        nousForm == IF endsWith(root, <<"g","e","r">>)
                    THEN stem \o <<"e","o","n","s">>
                    ELSE IF endsWith(root, <<"c","e","r">>)
                    THEN sliceEnd(stem, 1) \o <<"ç","o","n","s">>
                    ELSE stem \o <<"o","n","s">>
        isYer == endsWith(root, <<"y","e","r">>)
        singularStem == IF isYer THEN sliceEnd(stem, 1) \o <<"i">> ELSE stem
        form(text, who, tags) ==
            createWord(text \o <<"-", VERB>>, text, VERB, translationBase \o who, tags)
    IN  << form(singularStem \o <<"e">>, <<" ","(","J","e","/","I","l",")">>, <<"Je","Il","Elle">>),
           form(singularStem \o <<"e","s">>, <<" ","(","T","u",")">>, <<"Tu">>),
           form(nousForm, <<" ","(","N","o","u","s",")">>, <<"Nous">>),
           form(stem \o <<"e","z">>, <<" ","(","V","o","u","s",")">>, <<"Vous">>),
           form(singularStem \o <<"e","n","t">>, <<" ","(","I","l","s","/","E","l","l","e","s",")">>, <<"Ils","Elles">>) >>

\* The auxiliary tables, in their order.
wAller == createWord("aller-Infinitive", <<"a","l","l","e","r">>, VERB_INF, <<"t","o"," ","g","o"," ","(","A","u","x",")">>, <<>>)
wAlle == createWord("allé-Past Participle", <<"a","l","l","é">>, VERB_PP, <<"gone">>, <<>>)
wAvoir == createWord("avoir-Infinitive", <<"a","v","o","i","r">>, VERB_INF, <<"t","o"," ","h","a","v","e"," ","(","A","u","x",")">>, <<>>)

AUX_ALLER ==
    << wAller,
       createWord("vais-Auxiliary", <<"v","a","i","s">>, VERB_AUX, <<"am going (Je)">>, <<"Je">>),
       createWord("vas-Auxiliary", <<"v","a","s">>, VERB_AUX, <<"are going (Tu)">>, <<"Tu">>),
       createWord("va-Auxiliary", <<"v","a">>, VERB_AUX, <<"is going (Il/Elle)">>, <<"Il","Elle">>),
       createWord("allons-Auxiliary", <<"a","l","l","o","n","s">>, VERB_AUX, <<"are going (Nous)">>, <<"Nous">>),
       createWord("allez-Auxiliary", <<"a","l","l","e","z">>, VERB_AUX, <<"are going (Vous)">>, <<"Vous">>),
       createWord("vont-Auxiliary", <<"v","o","n","t">>, VERB_AUX, <<"are going (Ils/Elles)">>, <<"Ils","Elles">>),
       wAlle >>

AUX_AVOIR_ETRE ==
    << wAvoir, wEtre, wAi,
       createWord("as-Auxiliary", <<"a","s">>, VERB_AUX, <<"have (Tu)">>, <<"Tu">>),
       createWord("a-Auxiliary", <<"a">>, VERB_AUX, <<"has (Il/Elle)">>, <<"Il","Elle">>),
       createWord("avons-Auxiliary", <<"a","v","o","n","s">>, VERB_AUX, <<"have (Nous)">>, <<"Nous">>),
       createWord("avez-Auxiliary", <<"a","v","e","z">>, VERB_AUX, <<"have (Vous)">>, <<"Vous">>),
       wOnt,
       createWord("eu-Past Participle", <<"e","u">>, VERB_PP, <<"had">>, <<>>),
       createWord("suis-Auxiliary", <<"s","u","i","s">>, VERB_AUX, <<"am (Je)">>, <<"Je">>),
       createWord("es-Auxiliary", <<"e","s">>, VERB_AUX, <<"are (Tu)">>, <<"Tu">>),
       wEst,
       createWord("sommes-Auxiliary", <<"s","o","m","m","e","s">>, VERB_AUX, <<"are (Nous)">>, <<"Nous">>),
       createWord("êtes-Auxiliary", <<"ê","t","e","s">>, VERB_AUX, <<"are (Vous)">>, <<"Vous">>),
       createWord("sont-Auxiliary", <<"s","o","n","t">>, VERB_AUX, <<"are (Ils/Elles)">>, <<"Ils","Elles">>),
       createWord("été-Past Participle", <<"é","t","é">>, VERB_PP, <<"been">>, <<>>) >>


\* The irregular-forms table, keyed by the adjective's text.
irregularAdjectives ==
    [ lemma \in
      { <<"b","e","a","u">>,
        <<"n","o","u","v","e","a","u">>,
        <<"v","i","e","u","x">>,
        <<"f","r","a","i","s">>,
        <<"b","l","a","n","c">>,
        <<"h","e","u","r","e","u","x">>,
        <<"d","é","l","i","c","i","e","u","x">>,
        <<"d","a","n","g","e","r","e","u","x">> } |->
        IF lemma = <<"b","e","a","u">>
            THEN [ f |-> <<"b","e","l","l","e">>,
                   mpl |-> <<"b","e","a","u","x">>,
                   fpl |-> <<"b","e","l","l","e","s">> ]
        ELSE IF lemma = <<"n","o","u","v","e","a","u">>
            THEN [ f |-> <<"n","o","u","v","e","l","l","e">>,
                   mpl |-> <<"n","o","u","v","e","a","u","x">>,
                   fpl |-> <<"n","o","u","v","e","l","l","e","s">> ]
        ELSE IF lemma = <<"v","i","e","u","x">>
            THEN [ f |-> <<"v","i","e","i","l","l","e">>,
                   mpl |-> <<"v","i","e","u","x">>,
                   fpl |-> <<"v","i","e","i","l","l","e","s">> ]
        ELSE IF lemma = <<"f","r","a","i","s">>
            THEN [ f |-> <<"f","r","a","î","c","h","e">>,
                   mpl |-> <<"f","r","a","i","s">>,
                   fpl |-> <<"f","r","a","î","c","h","e","s">> ]
        ELSE IF lemma = <<"b","l","a","n","c">>
            THEN [ f |-> <<"b","l","a","n","c","h","e">>,
                   mpl |-> <<"b","l","a","n","c","s">>,
                   fpl |-> <<"b","l","a","n","c","h","e","s">> ]
        ELSE IF lemma = <<"h","e","u","r","e","u","x">>
            THEN [ f |-> <<"h","e","u","r","e","u","s","e">>,
                   mpl |-> <<"h","e","u","r","e","u","x">>,
                   fpl |-> <<"h","e","u","r","e","u","s","e","s">> ]
        ELSE IF lemma = <<"d","é","l","i","c","i","e","u","x">>
            THEN [ f |-> <<"d","é","l","i","c","i","e","u","s","e">>,
                   mpl |-> <<"d","é","l","i","c","i","e","u","x">>,
                   fpl |-> <<"d","é","l","i","c","i","e","u","s","e","s">> ]
        ELSE [ f |-> <<"d","a","n","g","e","r","e","u","s","e">>,
               mpl |-> <<"d","a","n","g","e","r","e","u","x">>,
               fpl |-> <<"d","a","n","g","e","r","e","u","s","e","s">> ] ]

\* word.tags?.includes('f') || word.tags?.includes('feminine')
isFemTag(word) ==
    includes(tagsOrEmpty(word), "f") \/ includes(tagsOrEmpty(word), "feminine")

\* Variant: no lookup of chat, chien and sorcier before the suffix rules.
nounGenderStepNoLookup(word, gender) ==
    LET text == word.text
    IN  IF gender = "f" /\ ~isFemTag(word)
        THEN IF endsWith(text, <<"e","r">>) THEN sliceEnd(text, 2) \o <<"è","r","e">>
             ELSE IF endsWith(text, <<"f">>) THEN sliceEnd(text, 1) \o <<"v","e">>
             ELSE IF endsWith(text, <<"x">>) THEN sliceEnd(text, 1) \o <<"s","e">>
             ELSE IF ~endsWith(text, <<"e">>) THEN text \o <<"e">>
             ELSE text
        ELSE text

\* The gender transformation of a noun's text.
nounGenderStep(word, gender) ==
    LET text == word.text
    IN  IF gender = "f" /\ ~isFemTag(word)
        THEN IF text = <<"c","h","a","t">> THEN <<"c","h","a","t","t","e">>
             ELSE IF text = <<"c","h","i","e","n">> THEN <<"c","h","i","e","n","n","e">>
             ELSE IF text = <<"s","o","r","c","i","e","r">>
                  THEN <<"s","o","r","c","i","è","r","e">>
             ELSE IF endsWith(text, <<"e","r">>) THEN sliceEnd(text, 2) \o <<"è","r","e">>
             ELSE IF endsWith(text, <<"f">>) THEN sliceEnd(text, 1) \o <<"v","e">>
             ELSE IF endsWith(text, <<"x">>) THEN sliceEnd(text, 1) \o <<"s","e">>
             ELSE IF ~endsWith(text, <<"e">>) THEN text \o <<"e">>
             ELSE text
        ELSE text

\* Variant: a text ending in "al" gets "s" like any other.
nounPluralStepNoAl(text, number) ==
    IF number = "pl"
    THEN IF endsWith(text, <<"s">>) \/ endsWith(text, <<"x">>) \/ endsWith(text, <<"z">>)
         THEN text
         ELSE IF endsWith(text, <<"a","u">>) \/ endsWith(text, <<"e","u">>)
         THEN text \o <<"x">>
         ELSE text \o <<"s">>
    ELSE text

\* The plural transformation of a noun's text.
nounPluralStep(text, number) ==
    IF number = "pl"
    THEN IF endsWith(text, <<"s">>) \/ endsWith(text, <<"x">>) \/ endsWith(text, <<"z">>)
         THEN text
         ELSE IF endsWith(text, <<"a","u">>) \/ endsWith(text, <<"e","u">>)
         THEN text \o <<"x">>
         ELSE IF endsWith(text, <<"a","l">>)
         THEN sliceEnd(text, 2) \o <<"a","u","x">>
         ELSE text \o <<"s">>
    ELSE text

genderTag(gender) == IF gender = "f" THEN "feminine" ELSE "masculine"
numberTag(number) == IF number = "pl" THEN "plural" ELSE "singular"

\* Variant: the noun's tags are appended to, as the adjective's are.
inflectNounAppendTags(word, gender, number) ==
    [ id          |-> word.id,
      text        |-> nounPluralStep(nounGenderStep(word, gender), number),
      type        |-> word.type,
      translation |-> word.translation,
      tags        |-> tagsOrEmpty(word) \o <<genderTag(gender), numberTag(number)>> ]

\* The NOUN branch: { ...word, text, tags: [gender tag, number tag] }
inflectNoun(word, gender, number) ==
    [ id          |-> word.id,
      text        |-> nounPluralStep(nounGenderStep(word, gender), number),
      type        |-> word.type,
      translation |-> word.translation,
      tags        |-> <<genderTag(gender), numberTag(number)>> ]

\* Variant: the regular rules are applied feminine after plural.
adjectiveRegularPluralFirst(text, gender, number) ==
    LET plural == IF number = "pl"
                  THEN IF endsWith(text, <<"s">>) \/ endsWith(text, <<"x">>)
                       THEN text
                       ELSE IF endsWith(text, <<"a","u">>) THEN text \o <<"x">>
                       ELSE text \o <<"s">>
                  ELSE text
    IN  IF gender = "f" /\ ~endsWith(plural, <<"e">>) THEN plural \o <<"e">> ELSE plural

\* The regular rules of an adjective: feminine, then plural.
adjectiveRegular(text, gender, number) ==
    LET feminine == IF gender = "f" /\ ~endsWith(text, <<"e">>)
                    THEN text \o <<"e">>
                    ELSE text
    IN  IF number = "pl"
        THEN IF endsWith(feminine, <<"s">>) \/ endsWith(feminine, <<"x">>)
             THEN feminine
             ELSE IF endsWith(feminine, <<"a","u">>) THEN feminine \o <<"x">>
             ELSE feminine \o <<"s">>
        ELSE feminine

\* Variant: the table is not consulted.
adjectiveTextRegularOnly(text, gender, number) ==
    adjectiveRegular(text, gender, number)

\* The text of an inflected adjective: the table first, else the rules.
adjectiveText(text, gender, number) ==
    IF text \in DOMAIN irregularAdjectives
    THEN LET forms == irregularAdjectives[text]
         IN  IF gender = "f" /\ number = "s" THEN forms.f
             ELSE IF gender = "m" /\ number = "pl" THEN forms.mpl
             ELSE IF gender = "f" /\ number = "pl" THEN forms.fpl
             ELSE text
    ELSE adjectiveRegular(text, gender, number)

\* Variant: the plural "s" is appended whatever the ending.
inflectAdjectiveAlwaysS(word, gender, number) ==
    [ id          |-> word.id,
      text        |-> IF number = "pl"
                      THEN adjectiveText(word.text, gender, "s") \o <<"s">>
                      ELSE adjectiveText(word.text, gender, number),
      type        |-> word.type,
      translation |-> word.translation,
      tags        |-> tagsOrEmpty(word) \o <<genderTag(gender), numberTag(number)>> ]

\* The ADJECTIVE branch: { ...word, text, tags: [...tags, gender, number] }
inflectAdjective(word, gender, number) ==
    [ id          |-> word.id,
      text        |-> adjectiveText(word.text, gender, number),
      type        |-> word.type,
      translation |-> word.translation,
      tags        |-> tagsOrEmpty(word) \o <<genderTag(gender), numberTag(number)>> ]

\* Variant: every other part of speech is tagged like an adjective.
generateVariationsTagAll(word, gender, number) ==
    IF word.type = NOUN THEN inflectNoun(word, gender, number)
    ELSE [ id          |-> word.id,
           text        |-> IF word.type = ADJECTIVE
                           THEN adjectiveText(word.text, gender, number)
                           ELSE word.text,
           type        |-> word.type,
           translation |-> word.translation,
           tags        |-> tagsOrEmpty(word) \o <<genderTag(gender), numberTag(number)>> ]

generateVariations(word, gender, number) ==
    IF word.type = NOUN THEN inflectNoun(word, gender, number)
    ELSE IF word.type = ADJECTIVE THEN inflectAdjective(word, gender, number)
    ELSE word

\* table.find(test) || null, from the words of the table that pass the test
find(matches) == IF matches = <<>> THEN Null ELSE matches[1]

\* The three lemma branches of getVerbForms: table.find and table.filter.
\* An empty ppText or formTexts means that the test has no such conjunct.
fixedForms(rootVerb, table, ppText, formTexts) ==
    LET isPP(w) == w.type = VERB_PP /\ (ppText = <<>> \/ w.text = ppText)
        isForm(w) == w.type = VERB_AUX /\ (formTexts = <<>> \/ includes(formTexts, w.text))
    IN  [ inf |-> rootVerb,
          pp  |-> find(SelectSeq(table, isPP)),
          conjugations |-> SelectSeq(table, isForm) ]

avoirForms == << <<"a","i">>, <<"a","s">>, <<"a">>, <<"a","v","o","n","s">>,
                 <<"a","v","e","z">>, <<"o","n","t">> >>

etreForms == << <<"s","u","i","s">>, <<"e","s">>, <<"e","s","t">>,
                <<"s","o","m","m","e","s">>, <<"ê","t","e","s">>, <<"s","o","n","t">> >>

\* Variant: the past participle drops one character only.
regularErFormsSliceOne(rootVerb) ==
    [ inf |-> rootVerb,
      pp  |-> createWord(sliceEnd(rootVerb.text, 1) \o <<"é", "-", VERB_PP>>,
                         sliceEnd(rootVerb.text, 1) \o <<"é">>, VERB_PP,
                         <<"Past Participle">>, <<>>),
      conjugations |-> generateErVerbs(rootVerb.text,
                           replaceFirst(rootVerb.translation, <<"t","o"," ">>, <<>>)) ]

\* The generative branch for a text ending in "er".
regularErForms(rootVerb) ==
    [ inf |-> rootVerb,
      pp  |-> createWord(sliceEnd(rootVerb.text, 2) \o <<"é", "-", VERB_PP>>,
                         sliceEnd(rootVerb.text, 2) \o <<"é">>, VERB_PP,
                         <<"Past Participle">>, <<>>),
      conjugations |-> generateErVerbs(rootVerb.text,
                           replaceFirst(rootVerb.translation, <<"t","o"," ">>, <<>>)) ]

\* Variant: the ending "er" is tested before the three lemmas.
getVerbFormsErFirst(rootVerb) ==
    IF endsWith(rootVerb.text, <<"e","r">>) THEN regularErForms(rootVerb)
    ELSE IF rootVerb.text = <<"a","v","o","i","r">>
    THEN fixedForms(rootVerb, AUX_AVOIR_ETRE, <<"e","u">>, avoirForms)
    ELSE IF rootVerb.text = <<"ê","t","r","e">>
    THEN fixedForms(rootVerb, AUX_AVOIR_ETRE, <<"é","t","é">>, etreForms)
    ELSE [ inf |-> rootVerb, pp |-> Null, conjugations |-> <<>> ]

\* Variant: the inner test of the ending "er" is missing.
getVerbFormsAnyEnding(rootVerb) ==
    IF rootVerb.text = <<"a","v","o","i","r">>
    THEN fixedForms(rootVerb, AUX_AVOIR_ETRE, <<"e","u">>, avoirForms)
    ELSE IF rootVerb.text = <<"ê","t","r","e">>
    THEN fixedForms(rootVerb, AUX_AVOIR_ETRE, <<"é","t","é">>, etreForms)
    ELSE IF rootVerb.text = <<"a","l","l","e","r">>
    THEN fixedForms(rootVerb, AUX_ALLER, <<>>, <<>>)
    ELSE IF \/ endsWith(rootVerb.text, <<"e","r">>)
            \/ endsWith(rootVerb.text, <<"i","r">>)
            \/ endsWith(rootVerb.text, <<"r","e">>)
    THEN regularErForms(rootVerb)
    ELSE [ inf |-> rootVerb, pp |-> Null, conjugations |-> <<>> ]

\* For "aller" the tests are on the type alone (no text, no list).
getVerbForms(rootVerb) ==
    IF rootVerb.text = <<"a","v","o","i","r">>
    THEN fixedForms(rootVerb, AUX_AVOIR_ETRE, <<"e","u">>, avoirForms)
    ELSE IF rootVerb.text = <<"ê","t","r","e">>
    THEN fixedForms(rootVerb, AUX_AVOIR_ETRE, <<"é","t","é">>, etreForms)
    ELSE IF rootVerb.text = <<"a","l","l","e","r">>
    THEN fixedForms(rootVerb, AUX_ALLER, <<>>, <<>>)
    ELSE IF /\ \/ endsWith(rootVerb.text, <<"e","r">>)
               \/ endsWith(rootVerb.text, <<"i","r">>)
               \/ endsWith(rootVerb.text, <<"r","e">>)
            /\ endsWith(rootVerb.text, <<"e","r">>)
    THEN regularErForms(rootVerb)
    ELSE [ inf |-> rootVerb, pp |-> Null, conjugations |-> <<>> ]

\* Nouns of the topic pools.
wChien == createWord("chien-Noun", <<"c","h","i","e","n">>, NOUN, <<"dog">>, <<"m","mutable">>)
wTele == createWord("télé-Noun", <<"t","é","l","é">>, NOUN, <<"TV">>, <<"f">>)
wPays == createWord("pays-Noun", <<"p","a","y","s">>, NOUN, <<"country">>, <<"m">>)
wLivre == createWord("livre-Noun", <<"l","i","v","r","e">>, NOUN, <<"book">>, <<"m">>)
wSorcier == createWord("sorcier-Noun", <<"s","o","r","c","i","e","r">>, NOUN, <<"wizard">>, <<"m","mutable">>)
wChateau == createWord("château-Noun", <<"c","h","â","t","e","a","u">>, NOUN, <<"castle">>, <<"m">>)

\* Nouns of a generated word pack: createWord(text, NOUN, translation, [gender]).
wEcolier == createWord("écolier-Noun", <<"é","c","o","l","i","e","r">>, NOUN, <<"schoolboy">>, <<"m">>)
wVeuf == createWord("veuf-Noun", <<"v","e","u","f">>, NOUN, <<"widower">>, <<"m">>)
wEpoux == createWord("époux-Noun", <<"é","p","o","u","x">>, NOUN, <<"spouse">>, <<"m">>)
wCheval == createWord("cheval-Noun", <<"c","h","e","v","a","l">>, NOUN, <<"horse">>, <<"m">>)
wJeu == createWord("jeu-Noun", <<"j","e","u">>, NOUN, <<"game">>, <<"m">>)
wNez == createWord("nez-Noun", <<"n","e","z">>, NOUN, <<"nose">>, <<"m">>)

MorphNouns ==
    { wChat, wEau, wChien, wTele, wPays, wLivre, wSorcier, wChateau,
      wEcolier, wVeuf, wEpoux, wCheval, wJeu, wNez }

\* Adjectives of the topic pools and of the irregular table.
wFatigue == createWord("fatigué-Adjective", <<"f","a","t","i","g","u","é">>, ADJECTIVE, <<"tired">>, <<>>)
wGrand == createWord("grand-Adjective", <<"g","r","a","n","d">>, ADJECTIVE, <<"big">>, <<>>)
wHeureux == createWord("heureux-Adjective", <<"h","e","u","r","e","u","x">>, ADJECTIVE, <<"happy">>, <<>>)
wDelicieux == createWord("délicieux-Adjective", <<"d","é","l","i","c","i","e","u","x">>, ADJECTIVE, <<"delicious">>, <<>>)
wFrais == createWord("frais-Adjective", <<"f","r","a","i","s">>, ADJECTIVE, <<"fresh">>, <<>>)
wBeau == createWord("beau-Adjective", <<"b","e","a","u">>, ADJECTIVE, <<"beautiful">>, <<>>)
wDangereux == createWord("dangereux-Adjective", <<"d","a","n","g","e","r","e","u","x">>, ADJECTIVE, <<"dangerous">>, <<>>)
wNouveau == createWord("nouveau-Adjective", <<"n","o","u","v","e","a","u">>, ADJECTIVE, <<"new">>, <<>>)
wVieux == createWord("vieux-Adjective", <<"v","i","e","u","x">>, ADJECTIVE, <<"old">>, <<>>)
wBlanc == createWord("blanc-Adjective", <<"b","l","a","n","c">>, ADJECTIVE, <<"white">>, <<>>)
wGris == createWord("gris-Adjective", <<"g","r","i","s">>, ADJECTIVE, <<"grey">>, <<>>)
wEsquimau == createWord("esquimau-Adjective", <<"e","s","q","u","i","m","a","u">>, ADJECTIVE, <<"Eskimo">>, <<>>)

MorphAdjectives ==
    { wFatigue, wGrand, wHeureux, wDelicieux, wFrais, wBeau,
      wDangereux, wNouveau, wVieux, wBlanc, wGris, wEsquimau }

\* Infinitives of the pools and of a generated word pack.
wManger == createWord("manger-Infinitive", <<"m","a","n","g","e","r">>, VERB_INF, <<"t","o"," ","e","a","t">>, <<>>)
wParler == createWord("parler-Infinitive", <<"p","a","r","l","e","r">>, VERB_INF, <<"t","o"," ","s","p","e","a","k">>, <<>>)
wDormir == createWord("dormir-Infinitive", <<"d","o","r","m","i","r">>, VERB_INF, <<"t","o"," ","s","l","e","e","p">>, <<>>)
wBoire == createWord("boire-Infinitive", <<"b","o","i","r","e">>, VERB_INF, <<"t","o"," ","d","r","i","n","k">>, <<>>)
wCommencer == createWord("commencer-Infinitive", <<"c","o","m","m","e","n","c","e","r">>, VERB_INF, <<"t","o"," ","b","e","g","i","n">>, <<>>)
wNettoyer == createWord("nettoyer-Infinitive", <<"n","e","t","t","o","y","e","r">>, VERB_INF, <<"t","o"," ","c","l","e","a","n">>, <<>>)

\* Infinitives whose text differs from a lemma in letter case only.
wAvoirCap == createWord("Avoir-Infinitive", <<"A","v","o","i","r">>, VERB_INF, <<"t","o"," ","h","a","v","e">>, <<>>)
wAllerUpper == createWord("ALLER-Infinitive", <<"A","L","L","E","R">>, VERB_INF, <<"t","o"," ","g","o">>, <<>>)
wAllerCap == createWord("Aller-Infinitive", <<"A","l","l","e","r">>, VERB_INF, <<"t","o"," ","g","o">>, <<>>)
wEtreCap == createWord("Être-Infinitive", <<"Ê","t","r","e">>, VERB_INF, <<"t","o"," ","b","e">>, <<>>)

MorphVerbs ==
    { wAvoir, wEtre, wAller, wManger, wParler, wDormir, wBoire, wCommencer, wNettoyer,
      wAvoirCap, wAllerUpper, wAllerCap, wEtreCap }

\* Words of the other parts of speech.
MorphOthers == { wJe, wAi, wUn, wUne, wLe, wEtait, wA, wParceQue, wOnt, wAlle }

MorphWords == MorphNouns \cup MorphAdjectives \cup MorphVerbs \cup MorphOthers


-----------------------------------------------------------------------------
(* The merge loop and the assembly, as a state machine                     *)

VARIABLES
    slots,        \* the slot sequence (useState<SentenceSlot[]>)
    initial,      \* the slot sequence the loop started from
    merges,       \* number of splices applied so far
    candidate,    \* result of the last call of findElisionCandidate
    rescanned,    \* the scan was invoked again after it returned null
    sentenceStr,  \* the string handed to validateSentence
    pc,           \* "scan", "found", "absent" or "checked"; for the
                  \* morphology "select", "varied" or "conjugated"
    customizingWord,  \* the word handed to generateVariations / getVerbForms
    customGender,     \* 'm' | 'f'
    customNumber,     \* 's' | 'pl'
    variedWord,       \* the result of generateVariations
    verbForms,        \* the result of getVerbForms
    inflections,      \* number of applications of generateVariations
    mergingIndex,     \* useState<number | null>: -1 stands for null
    timers,           \* pending setTimeout callbacks, oldest first; each holds
                      \* the candidate its closure captured
    activeSlotId,     \* useState<string | null>: 0 stands for null
    isAddingNew,
    draggedSlotIndex, \* useState<number | null>: -1 stands for null
    validation,       \* ValidationResult | null
    isValidating,
    nextId,           \* stands for the fresh id of the next appended slot
    sentencesCompleted,  \* gameState.sentencesCompleted
    isGameOver,          \* gameState.isGameOver
    pendingChallenge,    \* a follow-up question is offered (pendingChallenge !== null)
    earlierTimers        \* how many of the pending timeouts, the oldest ones,
                         \* were scheduled before the current round started

morphVars == <<customizingWord, customGender, customNumber, variedWord, verbForms,
               inflections>>

gameVars == <<mergingIndex, timers, activeSlotId, isAddingNew, draggedSlotIndex,
              validation, isValidating, nextId, sentencesCompleted, isGameOver,
              pendingChallenge, earlierTimers>>

vars == <<slots, initial, merges, candidate, rescanned, sentenceStr, pc, morphVars,
          gameVars>>

\* The initial values of GameScreen's state.
NoGame ==
    /\ mergingIndex = -1
    /\ timers = <<>>
    /\ activeSlotId = 0
    /\ isAddingNew = FALSE
    /\ draggedSlotIndex = -1
    /\ validation = Null
    /\ isValidating = FALSE
    /\ nextId = 1
    /\ sentencesCompleted = 0
    /\ isGameOver = FALSE
    /\ pendingChallenge = FALSE
    /\ earlierTimers = 0

\* useState<Word | null>(null), useState<'m' | 'f'>('m'), useState<'s' | 'pl'>('s')
NoCustomizer ==
    /\ customizingWord = Null
    /\ customGender = "m"
    /\ customNumber = "s"
    /\ variedWord = Null
    /\ verbForms = Null
    /\ inflections = 0

\* Variant: the appended slot is a noun slot whatever the word.
newSlotNounType(k, word) ==
    [ id |-> k, type |-> NOUN, value |-> word, placeholder |-> word.type ]

\* The slot commitWordSelection appends for a word (isAddingNew branch);
\* k stands for the unique id `slot-${Date.now()}-${Math.random()}`.
newSlot(k, word) ==
    [ id |-> k, type |-> word.type, value |-> word, placeholder |-> word.type ]

\* A slot whose value is null.
emptySlot(k) ==
    [ id |-> k, type |-> NOUN, value |-> Null, placeholder |-> NOUN ]

StartWith(s) ==
    /\ slots = s
    /\ initial = s
    /\ merges = 0
    /\ candidate = Null
    /\ rescanned = FALSE
    /\ sentenceStr = <<>>
    /\ pc = "scan"
    /\ NoCustomizer
    /\ NoGame

\* Fully filled sentences of up to MaxLen words.
InitSentence ==
    \E n \in 0..MaxLen : \E f \in [1..n -> CoreWords] :
        StartWith([k \in 1..n |-> newSlot(k, f[k])])

\* Every pair of slots over the whole lexicon, empty slots included.
InitPair ==
    \E a \in PairWords \cup {Null} : \E b \in PairWords \cup {Null} :
        StartWith(<< IF a = Null THEN emptySlot(1) ELSE newSlot(1, a),
                     IF b = Null THEN emptySlot(2) ELSE newSlot(2, b) >>)

\* const candidate = findElisionCandidate(slots)
Scan ==
    /\ pc = "scan"
    /\ candidate' = findElisionCandidate(slots)
    /\ pc' = IF candidate' = Null THEN "absent" ELSE "found"
    /\ UNCHANGED <<slots, initial, merges, rescanned, sentenceStr>>
    /\ UNCHANGED <<morphVars, gameVars>>

\* newSlots.splice(candidate.index, 2, candidate.mergedSlot)
Splice ==
    /\ pc = "found"
    /\ slots' = splice2(slots, candidate.index, candidate.mergedSlot)
    /\ merges' = merges + 1
    /\ pc' = "scan"
    /\ UNCHANGED <<initial, candidate, rescanned, sentenceStr>>
    /\ UNCHANGED <<morphVars, gameVars>>

\* The scan invoked again on the unchanged sequence after it returned null.
Rescan ==
    /\ pc = "absent"
    /\ ~rescanned
    /\ candidate' = findElisionCandidate(slots)
    /\ rescanned' = TRUE
    /\ UNCHANGED <<slots, initial, merges, sentenceStr, pc>>
    /\ UNCHANGED <<morphVars, gameVars>>

\* handleCheckSentence up to the computation of sentenceStr; it may run
\* before, between and after the merges.
CheckSentence ==
    /\ pc \in {"scan", "found", "absent"}
    /\ Len(slots) # 0
    /\ sentenceStr' = applyFrenchElision(joinTexts(slots))
    /\ pc' = "checked"
    /\ UNCHANGED <<slots, initial, merges, candidate, rescanned>>
    /\ UNCHANGED <<morphVars, gameVars>>

Next == Scan \/ Splice \/ Rescan \/ CheckSentence

\* The loop is run on the sentences and on the pairs.
Init == InitSentence \/ InitPair

Spec == Init /\ [][Next]_vars

\* The morphology is exercised on every word of its lexicon; the customizer
\* opens with the gender of the word's 'f' tag and the singular.
InitMorph ==
    \E w \in MorphWords :
        /\ customizingWord = w
        /\ customGender = (IF includes(tagsOrEmpty(w), "f") THEN "f" ELSE "m")
        /\ customNumber = "s"
        /\ variedWord = Null
        /\ verbForms = Null
        /\ inflections = 0
        /\ pc = "select"
        /\ slots = <<>>
        /\ initial = <<>>
        /\ merges = 0
        /\ candidate = Null
        /\ rescanned = FALSE
        /\ sentenceStr = <<>>
        /\ NoGame

\* generateVariations(word, gender, number) on the selected word, or on the
\* word a previous application returned.
Inflect ==
    /\ pc \in {"select", "varied"}
    /\ inflections < MaxInflect
    /\ \E gender \in {"m", "f"} : \E number \in {"s", "pl"} :
          LET word == IF pc = "select" THEN customizingWord ELSE variedWord
          IN  /\ customizingWord' = word
              /\ customGender' = gender
              /\ customNumber' = number
              /\ variedWord' = generateVariations(word, gender, number)
    /\ inflections' = inflections + 1
    /\ pc' = "varied"
    /\ UNCHANGED <<slots, initial, merges, candidate, rescanned, sentenceStr, verbForms>>
    /\ UNCHANGED gameVars

\* verbForms = getVerbForms(customizingWord) for an infinitive
Conjugate ==
    /\ pc = "select"
    /\ customizingWord.type = VERB_INF
    /\ verbForms' = getVerbForms(customizingWord)
    /\ pc' = "conjugated"
    /\ UNCHANGED <<slots, initial, merges, candidate, rescanned, sentenceStr>>
    /\ UNCHANGED <<customizingWord, customGender, customNumber, variedWord, inflections>>
    /\ UNCHANGED gameVars

NextMorph == Inflect \/ Conjugate

SpecMorph == InitMorph /\ [][NextMorph]_vars

------------------------------------------------------------------------------
(* GameScreen: the round, its handlers and the auto-merge effect            *)

\* The words picked from the picker.
GameWords == { wJe, wAi }

\* Variant: the effect's guard is inverted (mergingIndex === null).
effectCandidateInverted(s, m) ==
    IF m = -1 THEN Null ELSE findElisionCandidate(s)

\* The candidate the auto-merge effect starts animating for slots s and
\* mergingIndex m, or null.
effectCandidate(s, m) ==
    IF m # -1 THEN Null ELSE findElisionCandidate(s)

\* A handler leaves slots s, mergingIndex m and the pending timeouts ts; the
\* effect on [slots, mergingIndex] then runs before the next event.
AutoMerge(s, m, ts) ==
    LET c == effectCandidate(s, m)
    IN  /\ slots' = s
        /\ mergingIndex' = IF c = Null THEN m ELSE c.index
        /\ timers' = IF c = Null THEN ts ELSE Append(ts, c)

engineIdle == <<initial, merges, candidate, rescanned, pc, morphVars>>

\* The part of the game state that only the validation and the round
\* handlers write.
roundIdle == <<sentencesCompleted, isGameOver, pendingChallenge, earlierTimers>>

\* settings.mode: the game is a Standard game (GameMode.STANDARD).
settingsMode == "Standard"

\* The number of sentences of a Standard game.
SentenceLimit == 10

InitGame ==
    /\ slots = <<>>
    /\ initial = <<>>
    /\ merges = 0
    /\ candidate = Null
    /\ rescanned = FALSE
    /\ sentenceStr = <<>>
    /\ pc = "game"
    /\ NoCustomizer
    /\ NoGame

handleAddNewClick ==
    /\ ~isGameOver
    /\ validation = Null
    /\ mergingIndex = -1
    /\ isAddingNew' = TRUE
    /\ activeSlotId' = 0
    /\ UNCHANGED <<slots, mergingIndex, timers, draggedSlotIndex, validation,
                   isValidating, nextId, sentenceStr, engineIdle, roundIdle>>

handleSlotClick ==
    /\ ~isGameOver
    /\ validation = Null
    /\ mergingIndex = -1
    /\ \E i \in DOMAIN slots :
          activeSlotId' = IF activeSlotId = slots[i].id THEN 0 ELSE slots[i].id
    /\ isAddingNew' = FALSE
    /\ UNCHANGED <<slots, mergingIndex, timers, draggedSlotIndex, validation,
                   isValidating, nextId, sentenceStr, engineIdle, roundIdle>>

\* A word is picked while the picker is shown:
\* !isValidating && (activeSlotId || isAddingNew)
commitWordSelection ==
    /\ ~isGameOver
    /\ ~isValidating
    /\ \E word \in GameWords :
          IF activeSlotId # 0
          THEN /\ AutoMerge([i \in DOMAIN slots |->
                                IF slots[i].id = activeSlotId
                                THEN [ id |-> slots[i].id, type |-> word.type,
                                       value |-> word,
                                       placeholder |-> slots[i].placeholder ]
                                ELSE slots[i]],
                            mergingIndex, timers)
               /\ activeSlotId' = 0
               /\ UNCHANGED nextId
          ELSE /\ isAddingNew
               /\ Len(slots) < MaxSlots
               /\ nextId <= MaxIds
               /\ AutoMerge(Append(slots, newSlot(nextId, word)), mergingIndex, timers)
               /\ nextId' = nextId + 1
               /\ UNCHANGED activeSlotId
    /\ UNCHANGED <<isAddingNew, draggedSlotIndex, validation, isValidating,
                   sentenceStr, engineIdle, roundIdle>>

handleRemoveSlot ==
    /\ ~isGameOver
    /\ validation = Null
    /\ mergingIndex = -1
    /\ \E i \in DOMAIN slots :
          /\ AutoMerge(SubSeq(slots, 1, i - 1) \o SubSeq(slots, i + 1, Len(slots)),
                       mergingIndex, timers)
          /\ activeSlotId' = IF activeSlotId = slots[i].id THEN 0 ELSE activeSlotId
    /\ UNCHANGED <<isAddingNew, draggedSlotIndex, validation, isValidating, nextId,
                   sentenceStr, engineIdle, roundIdle>>

handleDragStart ==
    /\ ~isGameOver
    /\ mergingIndex = -1
    /\ \E index \in 0..(Len(slots) - 1) : draggedSlotIndex' = index
    /\ UNCHANGED <<slots, mergingIndex, timers, activeSlotId, isAddingNew, validation,
                   isValidating, nextId, sentenceStr, engineIdle, roundIdle>>

\* newSlots.splice(from, 1) followed by newSlots.splice(to, 0, draggedItem)
moveSlot(s, from, to) ==
    LET rest == SubSeq(s, 1, from) \o SubSeq(s, from + 2, Len(s))
    IN  SubSeq(rest, 1, to) \o <<s[from + 1]>> \o SubSeq(rest, to + 1, Len(rest))

\* The drop of a slot that is still in the sequence.
handleDrop ==
    /\ ~isGameOver
    /\ draggedSlotIndex # -1
    /\ draggedSlotIndex < Len(slots)
    /\ mergingIndex = -1
    /\ \E targetIndex \in 0..(Len(slots) - 1) :
          /\ draggedSlotIndex # targetIndex
          /\ AutoMerge(moveSlot(slots, draggedSlotIndex, targetIndex), mergingIndex, timers)
    /\ draggedSlotIndex' = -1
    /\ UNCHANGED <<activeSlotId, isAddingNew, validation, isValidating, nextId,
                   sentenceStr, engineIdle, roundIdle>>

\* The Check Grammar button (shown while !validation, disabled while
\* isValidating || slots.length < 2), up to the call of validateSentence.
handleCheckSentence ==
    /\ ~isGameOver
    /\ validation = Null
    /\ ~isValidating
    /\ Len(slots) >= 2
    /\ isValidating' = TRUE
    /\ sentenceStr' = applyFrenchElision(joinTexts(slots))
    /\ UNCHANGED <<slots, mergingIndex, timers, activeSlotId, isAddingNew,
                   draggedSlotIndex, validation, nextId, engineIdle, roundIdle>>

\* validateSentence resolves with the result { isValid, followUpQuestion };
\* handleCheckSentence continues after its await and returns, which ends the
\* life of its local sentenceStr. An accepted sentence is counted and may
\* come with a follow-up question.
validateSentenceResolved(isValid, followUpQuestion) ==
    /\ isValidating
    /\ validation' = [ isValid |-> isValid ]
    /\ IF isValid
       THEN /\ sentencesCompleted < MaxSentences
            /\ sentencesCompleted' = sentencesCompleted + 1
            /\ pendingChallenge' = followUpQuestion
       ELSE UNCHANGED <<sentencesCompleted, pendingChallenge>>
    /\ isValidating' = FALSE
    /\ activeSlotId' = 0
    /\ isAddingNew' = FALSE
    /\ sentenceStr' = <<>>
    /\ UNCHANGED <<slots, mergingIndex, timers, draggedSlotIndex, nextId, isGameOver,
                   earlierTimers, engineIdle>>

\* The validator rejects the sentence.
sentenceRejected == validateSentenceResolved(FALSE, FALSE)

\* The validator accepts the sentence, with or without a follow-up question.
sentenceAccepted ==
    \E followUpQuestion \in BOOLEAN : validateSentenceResolved(TRUE, followUpQuestion)

\* startNewRound: getStarterSentence() is empty, and pending timeouts are
\* not cleared. The ids above those that a pending timeout still holds are
\* free for the slots of the new round.
startNewRound ==
    /\ AutoMerge(<<>>, -1, timers)
    /\ validation' = Null
    /\ activeSlotId' = 0
    /\ isAddingNew' = FALSE
    /\ earlierTimers' = Len(timers)
    /\ LET held == { timers[k].mergedSlot.id : k \in DOMAIN timers }
       IN  nextId' = IF held = {} THEN 1
                     ELSE 1 + CHOOSE n \in held : \A k \in held : k <= n
    /\ UNCHANGED <<draggedSlotIndex, isValidating, sentenceStr, engineIdle>>

\* The Next / Decline button, shown with the validation. MaxTimers caps the
\* pending timeouts.
handleNext ==
    /\ ~isGameOver
    /\ validation # Null
    /\ Len(timers) <= MaxTimers
    /\ pendingChallenge' = FALSE
    /\ IF settingsMode = "Standard" /\ sentencesCompleted >= SentenceLimit
       THEN /\ isGameOver' = TRUE
            /\ UNCHANGED <<slots, mergingIndex, timers, activeSlotId, isAddingNew,
                           draggedSlotIndex, validation, isValidating, nextId,
                           sentenceStr, earlierTimers, engineIdle>>
       ELSE /\ startNewRound
            /\ UNCHANGED isGameOver
    /\ UNCHANGED sentencesCompleted

\* The Accept button, shown when validation.isValid && pendingChallenge.
handleAcceptChallenge ==
    /\ ~isGameOver
    /\ validation # Null
    /\ validation.isValid
    /\ pendingChallenge
    /\ Len(timers) <= MaxTimers
    /\ pendingChallenge' = FALSE
    /\ startNewRound
    /\ UNCHANGED <<sentencesCompleted, isGameOver>>

\* The oldest pending timeout fires: it splices the candidate it captured if
\* a fresh scan finds a candidate at the same index, and clears mergingIndex.
mergeTimeout ==
    /\ timers # <<>>
    /\ LET captured == Head(timers)
           freshCandidate == findElisionCandidate(slots)
       IN  AutoMerge(IF freshCandidate # Null /\ freshCandidate.index = captured.index
                     THEN splice2(slots, captured.index, captured.mergedSlot)
                     ELSE slots,
                     -1, Tail(timers))
    /\ earlierTimers' = IF earlierTimers > 0 THEN earlierTimers - 1 ELSE 0
    /\ UNCHANGED <<activeSlotId, isAddingNew, draggedSlotIndex, validation,
                   isValidating, nextId, sentenceStr, sentencesCompleted, isGameOver,
                   pendingChallenge, engineIdle>>

NextGame ==
    \/ handleAddNewClick
    \/ handleSlotClick
    \/ commitWordSelection
    \/ handleRemoveSlot
    \/ handleDragStart
    \/ handleDrop
    \/ handleCheckSentence
    \/ sentenceRejected
    \/ sentenceAccepted
    \/ mergeTimeout

\* One round: every handler of the sentence builder, the submission and the
\* validator's answer.
SpecGame == InitGame /\ [][NextGame]_vars

NextRounds ==
    \/ handleAddNewClick
    \/ handleSlotClick
    \/ commitWordSelection
    \/ handleRemoveSlot
    \/ handleDragStart
    \/ handleDrop
    \/ handleCheckSentence
    \/ sentenceRejected
    \/ sentenceAccepted
    \/ handleNext
    \/ handleAcceptChallenge
    \/ mergeTimeout

\* A whole Standard game: one round after another, started by the Next and
\* the Accept buttons.
SpecRounds == InitGame /\ [][NextRounds]_vars

TypeOK ==
    /\ pc \in {"scan", "found", "absent", "checked", "select", "varied", "conjugated",
              "game"}
    /\ merges \in 0..MaxLen
    /\ customGender \in {"m", "f"}
    /\ customNumber \in {"s", "pl"}
    /\ inflections \in 0..MaxInflect
    /\ pc # "game" => Len(slots) + merges = Len(initial)
    /\ mergingIndex \in -1..(MaxLen - 2)
    /\ isAddingNew \in BOOLEAN
    /\ isValidating \in BOOLEAN
    /\ Len(timers) <= MaxTimers + 1
    /\ sentencesCompleted \in 0..MaxSentences
    /\ isGameOver \in BOOLEAN
    /\ pendingChallenge \in BOOLEAN
    /\ earlierTimers \in 0..Len(timers)

-----------------------------------------------------------------------------
(* Properties                                                              *)

\* The elements of an array, as a set.
Elems(seq) == { seq[k] : k \in DOMAIN seq }

\* The 1-based positions i whose pair (slots[i], slots[i+1]) qualifies.
QualifyingPairs(seq) ==
    { i \in 1..(Len(seq) - 1) : shouldElide(seq[i], seq[i + 1]) }

\* The two slots the last scan found.
FoundFirst  == slots[candidate.index + 1]
FoundSecond == slots[candidate.index + 2]

\* C1: the scan returns the first qualifying pair, counted from the left,
\* returns that one pair only, and returns null exactly when no adjacent
\* pair qualifies.
C1_FirstQualifyingPair ==
    pc \in {"found", "absent"} =>
        /\ (candidate = Null) <=> (QualifyingPairs(slots) = {})
        /\ candidate # Null =>
             /\ DOMAIN candidate = {"index", "mergedSlot"}
             /\ candidate.index + 1 \in QualifyingPairs(slots)
             /\ \A j \in QualifyingPairs(slots) : candidate.index + 1 <= j
             /\ candidate.mergedSlot.id = FoundFirst.id
             /\ candidate.mergedSlot.value.id
                    = FoundFirst.value.id \o <<"+">> \o FoundSecond.value.id

\* A scan that found the leftmost of several qualifying pairs.
C1_Witness ==
    /\ pc = "found"
    /\ Cardinality(QualifyingPairs(slots)) >= 2
    /\ candidate.index = 0

\* The trigger words, vowel-class characters and prefixes of the contract.
SpecTriggers ==
    { <<"j","e">>, <<"m","e">>, <<"t","e">>, <<"s","e">>, <<"l","e">>,
      <<"l","a">>, <<"d","e">>, <<"n","e">>, <<"q","u","e">>,
      <<"j","u","s","q","u","e">>, <<"s","i">>, <<"c","e">> }

SpecVowels == {"a","e","i","o","u","y","h","é","è","ê"}

HasPrefix(s, p) == Len(s) >= Len(p) /\ \A k \in 1..Len(p) : s[k] = p[k]

PairElides(a, b) ==
    /\ a.value # Null
    /\ b.value # Null
    /\ LET w1 == toLowerCase(a.value.text)
           w2 == toLowerCase(b.value.text)
       IN  /\ w1 \in SpecTriggers
           /\ Len(w2) >= 1
           /\ w2[1] \in SpecVowels
           /\ (w1 = <<"s","i">> => HasPrefix(w2, <<"i","l">>))
           /\ (w1 = <<"c","e">> =>
                  HasPrefix(w2, <<"e","s","t">>) \/ HasPrefix(w2, <<"é","t">>))

\* C2: a pair of slots is merged exactly when both hold a word, the first
\* is a trigger, the second begins with a vowel-class character, and the
\* restrictions on "si" and "ce" are met.
C2_ShouldElideExact ==
    (pc \in {"found", "absent"} /\ Len(slots) = 2) =>
        ((candidate # Null) <=> PairElides(slots[1], slots[2]))

\* The scan of "ce" before a vowel-initial word that is neither est nor ét-.
C2_Witness ==
    /\ pc = "absent"
    /\ Len(slots) = 2
    /\ slots[1].value # Null
    /\ slots[2].value # Null
    /\ slots[1].value.text = <<"c","e">>
    /\ slots[2].value.text = <<"a","i">>

C4_LoopTerminates ==
    /\ Len(slots) + merges = Len(initial)
    /\ merges <= IF Len(initial) = 0 THEN 0 ELSE Len(initial) - 1
    /\ (pc = "found" => merges < Len(initial) - 1)
    /\ (pc = "absent" => candidate = Null)

\* The fixed point after two merges, scanned twice.
C4_Witness ==
    /\ pc = "absent"
    /\ rescanned
    /\ merges = 2
    /\ Len(initial) = 4

\* The texts of a fully filled slot sequence.
TextsOf(seq) == [k \in DOMAIN seq |-> seq[k].value.text]

\* The sentence [Je, ai, un, chat] was built, merged to the fixed point and
\* then assembled.
JeAiUnChatAssembled ==
    /\ \A k \in DOMAIN initial : initial[k].value # Null
    /\ TextsOf(initial) = << <<"J","e">>, <<"a","i">>, <<"u","n">>, <<"c","h","a","t">> >>
    /\ pc = "checked"
    /\ findElisionCandidate(slots) = Null

MergedSlots ==
    { k \in DOMAIN slots : slots[k].value # Null /\ "+" \in Elems(slots[k].value.id) }

RECURSIVE CountChar(_, _)
CountChar(s, c) ==
    IF Len(s) = 0 THEN 0
    ELSE (IF s[1] = c THEN 1 ELSE 0) + CountChar(Tail(s), c)

\* C6: the text of every merged slot, the candidate's and those spliced
\* into the sequence, contains exactly one apostrophe.
C6_OneApostrophe ==
    /\ pc = "found" => CountChar(candidate.mergedSlot.value.text, "'") = 1
    /\ \A k \in MergedSlots : CountChar(slots[k].value.text, "'") = 1

\* A fixed point with a merged slot and with "le" before the article "l'",
\* which are not merged.
C6_Witness ==
    /\ pc = "absent"
    /\ Cardinality(MergedSlots) >= 1
    /\ \E k \in DOMAIN slots :
          /\ k > 1
          /\ slots[k].value # Null
          /\ slots[k].value.text = <<"l","'">>
          /\ slots[k - 1].value # Null
          /\ slots[k - 1].value.text = <<"l","e">>

\* C7: the merged slot has the id of the first slot and the type and
\* placeholder of the second; once spliced in, the first slot's id is still
\* in the sequence, at the same position, and the second slot's id is gone.
C7_MergedSlotIdentity ==
    /\ pc = "found" =>
          /\ candidate.mergedSlot.id = FoundFirst.id
          /\ candidate.mergedSlot.type = FoundSecond.type
          /\ candidate.mergedSlot.placeholder = FoundSecond.placeholder
    /\ (pc = "scan" /\ merges = 1) =>
          /\ slots[candidate.index + 1].id = initial[candidate.index + 1].id
          /\ { slots[k].id : k \in DOMAIN slots }
                = { initial[k].id : k \in DOMAIN initial }
                      \ { initial[candidate.index + 2].id }

\* A merge of the second and third of three slots has been spliced in.
C7_Witness ==
    /\ pc = "scan"
    /\ merges = 1
    /\ Len(initial) = 3
    /\ candidate.index = 1
    /\ slots[2].type # initial[2].type

\* C8: the merged word has the type of the second word, the translation
\* "<first> + <second>", and as tags those of both words.
C8_MergedWordFields ==
    pc = "found" =>
        LET w  == candidate.mergedSlot.value
            a  == FoundFirst.value
            b  == FoundSecond.value
            ta == IF "tags" \in DOMAIN a THEN Elems(a.tags) ELSE {}
            tb == IF "tags" \in DOMAIN b THEN Elems(b.tags) ELSE {}
        IN  /\ w.type = b.type
            /\ Len(w.translation) = Len(a.translation) + 1 + Len(b.translation)
            /\ SubSeq(w.translation, 1, Len(a.translation)) = a.translation
            /\ w.translation[Len(a.translation) + 1] = " + "
            /\ SubSeq(w.translation, Len(a.translation) + 2, Len(w.translation)) = b.translation
            /\ "tags" \in DOMAIN w
            /\ Elems(w.tags) = ta \cup tb

\* A candidate whose second word carries tags and whose first does not.
C8_Witness ==
    /\ pc = "found"
    /\ tagsOrEmpty(FoundFirst.value) = <<>>
    /\ tagsOrEmpty(FoundSecond.value) = <<"Il","Elle">>
    /\ candidate.mergedSlot.value.translation = <<"it", " + ", "is (Il/Elle)">>

\* sentence.split(' ')
RECURSIVE SplitFrom(_, _, _)
SplitFrom(s, p, word) ==
    IF p > Len(s) THEN <<word>>
    ELSE IF s[p] = " " THEN <<word>> \o SplitFrom(s, p + 1, <<>>)
    ELSE SplitFrom(s, p + 1, Append(word, s[p]))

WordsOf(s) == SplitFrom(s, 1, <<>>)

\* The sentence was assembled from slots that all hold a word.
AssembledFilled ==
    /\ pc = "checked"
    /\ \A k \in DOMAIN slots : slots[k].value # Null

\* The second word begins with a vowel-class character.
VowelInitial(w) == Len(w) >= 1 /\ toLowerChar(w[1]) \in SpecVowels

Contracted(t, w) == dropLast(t) \o <<"'">> \o w

\* The words t and w stand next to each other in the sentence s.
AdjacentIn(s, t, w) ==
    \E k \in 1..(Len(WordsOf(s)) - 1) :
        WordsOf(s)[k] = t /\ WordsOf(s)[k + 1] = w

SiIlRewritten ==
    \A i \in 1..(Len(slots) - 1) :
        LET t == slots[i].value.text
            w == slots[i + 1].value.text
        IN  (toLowerCase(t) = <<"s","i">> /\ HasPrefix(toLowerCase(w), <<"i","l">>))
                => (<<"s","'">> \o w) \in Elems(WordsOf(sentenceStr))

\* C9 as stated: each of the ten triggers before a vowel-initial word is
\* contracted, and "si il" becomes "s'il".
C9_TenTriggersAlike ==
    AssembledFilled =>
        /\ \A i \in 1..(Len(slots) - 1) :
              LET t == slots[i].value.text
                  w == slots[i + 1].value.text
              IN  (toLowerCase(t) \in (SpecTriggers \ {<<"j","u","s","q","u","e">>, <<"s","i">>})
                      /\ VowelInitial(w))
                      => Contracted(t, w) \in Elems(WordsOf(sentenceStr))
        /\ SiIlRewritten

\* C9 amended: each of the nine triggers je, me, te, se, le, la, de, ne,
\* que before a vowel-initial word is contracted; "ce" is contracted before
\* a word beginning with e or é and left as it is before any other
\* vowel-initial word; "si il" becomes "s'il".
C9_NineTriggersAndCe ==
    AssembledFilled =>
        /\ \A i \in 1..(Len(slots) - 1) :
              LET t == slots[i].value.text
                  w == slots[i + 1].value.text
              IN  /\ (toLowerCase(t) \in (SpecTriggers \ {<<"j","u","s","q","u","e">>, <<"s","i">>, <<"c","e">>})
                          /\ VowelInitial(w))
                          => Contracted(t, w) \in Elems(WordsOf(sentenceStr))
                  /\ (toLowerCase(t) = <<"c","e">> /\ VowelInitial(w)) =>
                          IF toLowerChar(w[1]) \in {"e", "é"}
                          THEN Contracted(t, w) \in Elems(WordsOf(sentenceStr))
                          ELSE /\ AdjacentIn(sentenceStr, t, w)
                               /\ Contracted(t, w) \notin Elems(WordsOf(sentenceStr))
        /\ SiIlRewritten

\* "ce ai le un" assembled before any merge: "ce ai" stays, "le un" is
\* contracted.
C9_Witness ==
    /\ AssembledFilled
    /\ merges = 0
    /\ sentenceStr = <<"c","e"," ","a","i"," ","l","'","u","n">>

\* A slot holding only the text w.
TextSlot(w) == [ value |-> [ text |-> w ] ]

\* C10: whatever merges were applied before, the assembled string of a
\* fully filled sequence without "jusque" has no two adjacent words that
\* shouldElide would contract.
C10_FullyContracted ==
    (AssembledFilled
        /\ \A k \in DOMAIN initial :
              toLowerCase(initial[k].value.text) # <<"j","u","s","q","u","e">>)
        => \A k \in 1..(Len(WordsOf(sentenceStr)) - 1) :
              ~shouldElide(TextSlot(WordsOf(sentenceStr)[k]),
                           TextSlot(WordsOf(sentenceStr)[k + 1]))

\* A sentence assembled after one of its two merges: the string pass
\* contracts the pair the slots still hold apart.
C10_Witness ==
    /\ AssembledFilled
    /\ merges = 1
    /\ QualifyingPairs(slots) # {}
    /\ sentenceStr = <<"J","'","a","i"," ","l","'","u","n">>

\* The pair "jusque" + vowel-initial word, before any merge.
JusquePair ==
    /\ Len(initial) = 2
    /\ merges = 0
    /\ initial[1].value # Null
    /\ initial[2].value # Null
    /\ toLowerCase(initial[1].value.text) = <<"j","u","s","q","u","e">>
    /\ VowelInitial(initial[2].value.text)

\* C12: for "jusque" before a vowel-initial word the scan returns a merge
\* candidate, and the string pass leaves "jusque <word>" as it is.
C12_JusqueDivergence ==
    JusquePair =>
        /\ pc \in {"found", "absent"} =>
              /\ candidate # Null
              /\ candidate.index = 0
              /\ candidate.mergedSlot.value.text
                    = <<"j","u","s","q","u">> \o <<"'">> \o initial[2].value.text
        /\ pc = "checked" =>
              sentenceStr = initial[1].value.text \o <<" ">> \o initial[2].value.text

\* "jusque eau" assembled while the scan's candidate "jusqu'eau" is pending.
C12_Witness ==
    /\ JusquePair
    /\ pc = "checked"
    /\ candidate # Null
    /\ sentenceStr = <<"j","u","s","q","u","e"," ","e","a","u">>

\* generateVariations has been applied to customizingWord.
Varied == pc = "varied"

\* C13: a word that is neither a noun nor an adjective comes back unchanged
\* (same id, text, type, translation and tags, a missing tags property still
\* missing), whatever the gender and the number.
C13_OtherPartsUnchanged ==
    (Varied /\ customizingWord.type \notin {NOUN, ADJECTIVE}) =>
        /\ variedWord = customizingWord
        /\ DOMAIN variedWord = DOMAIN customizingWord

\* The article "une", which has no tags, asked in the feminine plural.
C13_Witness ==
    /\ Varied
    /\ customizingWord = wUne
    /\ customGender = "f"
    /\ customNumber = "pl"
    /\ variedWord = wUne

\* The feminine of a noun's text by the first matching rule of the list.
FeminineRule(text) ==
    LET rules == << [when |-> text = <<"c","h","a","t">>, then |-> <<"c","h","a","t","t","e">>],
                    [when |-> text = <<"c","h","i","e","n">>, then |-> <<"c","h","i","e","n","n","e">>],
                    [when |-> text = <<"s","o","r","c","i","e","r">>, then |-> <<"s","o","r","c","i","è","r","e">>],
                    [when |-> endsWith(text, <<"e","r">>),
                     then |-> SubSeq(text, 1, Len(text) - 2) \o <<"è","r","e">>],
                    [when |-> endsWith(text, <<"f">>),
                     then |-> SubSeq(text, 1, Len(text) - 1) \o <<"v","e">>],
                    [when |-> endsWith(text, <<"x">>),
                     then |-> SubSeq(text, 1, Len(text) - 1) \o <<"s","e">>],
                    [when |-> ~endsWith(text, <<"e">>), then |-> text \o <<"e">>],
                    [when |-> TRUE, then |-> text] >>
        first == CHOOSE i \in DOMAIN rules :
                     rules[i].when /\ \A j \in 1..(i - 1) : ~rules[j].when
    IN  rules[first].then

TaggedFeminine(word) ==
    "tags" \in DOMAIN word /\
    \E i \in DOMAIN word.tags : word.tags[i] \in {"f", "feminine"}

\* The stem the gender step leaves for a noun.
GenderStem(word, gender) ==
    IF gender = "f" /\ ~TaggedFeminine(word) THEN FeminineRule(word.text) ELSE word.text

\* C14: a noun asked in the feminine and not tagged feminine gets the first
\* matching rule (lookup, -er, -f, -x, append e unless it ends in e); asked in
\* the masculine, or already tagged feminine, its stem is unchanged. Seen in
\* the singular, where the result is the gender step's stem.
C14_NounGenderStep ==
    (Varied /\ customizingWord.type = NOUN /\ customNumber = "s") =>
        variedWord.text = GenderStem(customizingWord, customGender)

\* chat -> chatte, by the lookup and not by the default rule.
C14_Witness ==
    /\ Varied
    /\ customizingWord = wChat
    /\ customGender = "f"
    /\ customNumber = "s"
    /\ variedWord.text = <<"c","h","a","t","t","e">>

\* The plural of a stem by the rules of the plural step.
NounPluralRule(stem) ==
    IF stem[Len(stem)] \in {"s", "x", "z"} THEN stem
    ELSE IF endsWith(stem, <<"a","u">>) \/ endsWith(stem, <<"e","u">>) THEN stem \o <<"x">>
    ELSE IF endsWith(stem, <<"a","l">>) THEN SubSeq(stem, 1, Len(stem) - 2) \o <<"a","u","x">>
    ELSE stem \o <<"s">>

\* C15: the plural step acts on the stem the gender step returned: unchanged
\* after s, x or z, else "x" after au or eu, else "al" becomes "aux", else
\* "s"; in the singular the stem stays as the gender step left it.
C15_NounPluralStep ==
    (Varied /\ customizingWord.type = NOUN) =>
        variedWord.text =
            IF customNumber = "pl"
            THEN NounPluralRule(GenderStem(customizingWord, customGender))
            ELSE GenderStem(customizingWord, customGender)

\* cheval -> chevaux in the masculine plural.
C15_Witness ==
    /\ Varied
    /\ customizingWord = wCheval
    /\ customGender = "m"
    /\ customNumber = "pl"
    /\ variedWord.text = <<"c","h","e","v","a","u","x">>

C17_Lemmas ==
    { <<"b","e","a","u">>, <<"n","o","u","v","e","a","u">>, <<"v","i","e","u","x">>, <<"f","r","a","i","s">>,
      <<"b","l","a","n","c">>, <<"h","e","u","r","e","u","x">>, <<"d","é","l","i","c","i","e","u","x">>, <<"d","a","n","g","e","r","e","u","x">> }

\* C17: an adjective whose text is one of the eight lemmas gets the table's
\* form for (gender, number) and keeps its text in the masculine singular;
\* beau in the feminine plural is "belles".
C17_IrregularAdjectives ==
    (Varied /\ customizingWord.type = ADJECTIVE /\ customizingWord.text \in C17_Lemmas) =>
        /\ customizingWord.text \in DOMAIN irregularAdjectives
        /\ variedWord.text =
              LET forms == irregularAdjectives[customizingWord.text]
              IN  IF customGender = "m" /\ customNumber = "s" THEN customizingWord.text
                  ELSE IF customGender = "f" /\ customNumber = "s" THEN forms.f
                  ELSE IF customGender = "m" /\ customNumber = "pl" THEN forms.mpl
                  ELSE forms.fpl
        /\ (customizingWord.text = <<"b","e","a","u">> /\ customGender = "f" /\ customNumber = "pl")
              => variedWord.text = <<"b","e","l","l","e","s">>

\* beau, feminine, plural -> belles
C17_Witness ==
    /\ Varied
    /\ customizingWord = wBeau
    /\ customGender = "f"
    /\ customNumber = "pl"
    /\ variedWord.text = <<"b","e","l","l","e","s">>

AdjFeminineRule(text) == IF endsWith(text, <<"e">>) THEN text ELSE text \o <<"e">>

AdjPluralRule(text) ==
    IF endsWith(text, <<"s">>) \/ endsWith(text, <<"x">>) THEN text
    ELSE IF endsWith(text, <<"a","u">>) THEN text \o <<"x">>
    ELSE text \o <<"s">>

\* C18: an adjective outside the table gets the feminine rule, then the
\* plural rule on that result; its feminine plural is
\* plural-rule(feminine-rule(lemma)).
C18_RegularAdjectives ==
    (Varied /\ customizingWord.type = ADJECTIVE /\ customizingWord.text \notin C17_Lemmas) =>
        LET feminine == IF customGender = "f"
                        THEN AdjFeminineRule(customizingWord.text)
                        ELSE customizingWord.text
        IN  variedWord.text =
                IF customNumber = "pl" THEN AdjPluralRule(feminine) ELSE feminine

\* grand, feminine, plural -> grandes
C18_Witness ==
    /\ Varied
    /\ customizingWord = wGrand
    /\ customGender = "f"
    /\ customNumber = "pl"
    /\ variedWord.text = <<"g","r","a","n","d","e","s">>

\* getVerbForms has been applied to customizingWord.
Conjugated == pc = "conjugated"

\* The texts of a list of words, in order.
FormTexts(words) == [i \in DOMAIN words |-> words[i].text]

\* The fixed paradigm of a lemma: its six forms and its past participle.
FixedParadigm(lemma) ==
    IF lemma = <<"a","v","o","i","r">>
    THEN [ forms |-> << <<"a","i">>, <<"a","s">>, <<"a">>, <<"a","v","o","n","s">>, <<"a","v","e","z">>, <<"o","n","t">> >>,
           pp |-> <<"e","u">> ]
    ELSE IF lemma = <<"ê","t","r","e">>
    THEN [ forms |-> << <<"s","u","i","s">>, <<"e","s">>, <<"e","s","t">>, <<"s","o","m","m","e","s">>, <<"ê","t","e","s">>, <<"s","o","n","t">> >>,
           pp |-> <<"é","t","é">> ]
    ELSE [ forms |-> << <<"v","a","i","s">>, <<"v","a","s">>, <<"v","a">>, <<"a","l","l","o","n","s">>, <<"a","l","l","e","z">>, <<"v","o","n","t">> >>,
           pp |-> <<"a","l","l","é">> ]

FixedLemmas == { <<"a","v","o","i","r">>, <<"ê","t","r","e">>, <<"a","l","l","e","r">> }

\* The result is the fixed paradigm of the lemma, taken from the tables.
HasFixedParadigm(lemma) ==
    /\ FormTexts(verbForms.conjugations) = FixedParadigm(lemma).forms
    /\ \A i \in DOMAIN verbForms.conjugations :
          verbForms.conjugations[i].type = VERB_AUX
    /\ verbForms.pp # Null
    /\ verbForms.pp.text = FixedParadigm(lemma).pp
    /\ verbForms.pp.type = VERB_PP

\* C19: avoir, être and aller get their six table forms in order, the past
\* participles eu, été and allé, and the input word as infinitive; none of
\* the forms is a generated one, "aller" included.
C19_FixedParadigms ==
    (Conjugated /\ customizingWord.text \in FixedLemmas) =>
        /\ HasFixedParadigm(customizingWord.text)
        /\ verbForms.inf = customizingWord
        /\ \A i \in DOMAIN verbForms.conjugations :
              \E j \in DOMAIN AUX_ALLER \cup DOMAIN AUX_AVOIR_ETRE :
                  \/ j \in DOMAIN AUX_ALLER /\ verbForms.conjugations[i] = AUX_ALLER[j]
                  \/ /\ j \in DOMAIN AUX_AVOIR_ETRE
                     /\ verbForms.conjugations[i] = AUX_AVOIR_ETRE[j]

\* "aller" conjugated: vais, ..., vont and allé.
C19_Witness ==
    /\ Conjugated
    /\ customizingWord = wAller
    /\ FormTexts(verbForms.conjugations) = << <<"v","a","i","s">>, <<"v","a","s">>, <<"v","a">>, <<"a","l","l","o","n","s">>, <<"a","l","l","e","z">>, <<"v","o","n","t">> >>
    /\ verbForms.pp = wAlle

\* C20: an infinitive whose text is avoir, être or aller up to letter case
\* resolves to the fixed paradigm of that lemma.
C20_CaseInsensitiveLemma ==
    (Conjugated /\ toLowerCase(customizingWord.text) \in FixedLemmas) =>
        HasFixedParadigm(toLowerCase(customizingWord.text))

\* The step in which handleCheckSentence takes the sentence for judging.
SubmitStep == ~isValidating /\ isValidating'

\* C11 as claimed: a sentence is submitted only when no merge is pending and
\* the scan of the current slots returns no candidate.
C11_SubmitAtFixedPoint ==
    [][SubmitStep => (mergingIndex = -1 /\ findElisionCandidate(slots) = Null)]_vars

\* C11: a sentence may be submitted while a merge is pending; it is never
\* submitted when no merge is pending and the scan of the current slots still
\* returns a candidate.
C11_SubmitNeverUnscanned ==
    [][SubmitStep => (mergingIndex = -1 => findElisionCandidate(slots) = Null)]_vars

\* "J'ai ai" is being judged: Je and ai were merged before the third word
\* came, and nothing is pending.
C11_Witness ==
    /\ pc = "game"
    /\ isValidating
    /\ mergingIndex = -1
    /\ timers = <<>>
    /\ Len(slots) = 2
    /\ slots[1].value.text = <<"J","'","a","i">>
    /\ sentenceStr = <<"J","'","a","i"," ","a","i">>

\* The text is exactly one of the lemmas avoir, être and aller.
IsFixedLemma(text) == text \in FixedLemmas

\* C21: an infinitive ending in "er" other than aller gets exactly five
\* forms and a past participle whose text is the infinitive without its
\* "er", followed by "é"; the infinitive returned is the input word.
C21_ErVerbShape ==
    (/\ Conjugated
     /\ endsWith(customizingWord.text, <<"e","r">>)
     /\ ~IsFixedLemma(customizingWord.text)) =>
        /\ Len(verbForms.conjugations) = 5
        /\ verbForms.pp # Null
        /\ verbForms.pp.text =
              SubSeq(customizingWord.text, 1, Len(customizingWord.text) - 2) \o <<"é">>
        /\ verbForms.inf = customizingWord

\* manger: five forms and the past participle "mangé".
C21_Witness ==
    /\ Conjugated
    /\ customizingWord = wManger
    /\ Len(verbForms.conjugations) = 5
    /\ verbForms.pp.text = <<"m","a","n","g","é">>

\* The five forms of a regular -er verb, from its text.
ErParadigm(text) ==
    LET stem == SubSeq(text, 1, Len(text) - 2)
        short == SubSeq(stem, 1, Len(stem) - 1)
        soft == IF endsWith(text, <<"y","e","r">>) THEN short \o <<"i">> ELSE stem
        nous == IF endsWith(text, <<"g","e","r">>) THEN stem \o <<"e","o","n","s">>
                ELSE IF endsWith(text, <<"c","e","r">>) THEN short \o <<"ç","o","n","s">>
                ELSE stem \o <<"o","n","s">>
    IN  << soft \o <<"e">>, soft \o <<"e","s">>, nous, stem \o <<"e","z">>,
           soft \o <<"e","n","t">> >>

\* C22: the five forms are, in order, s'+e, s'+es, the "nous" form, s+ez and
\* s'+ent, where s' has i for the final y of a -yer verb, and the "nous"
\* form is s+eons after -ger, s without its last character + çons after
\* -cer, and s+ons otherwise.
C22_ErVerbForms ==
    (/\ Conjugated
     /\ endsWith(customizingWord.text, <<"e","r">>)
     /\ ~IsFixedLemma(customizingWord.text)) =>
        FormTexts(verbForms.conjugations) = ErParadigm(customizingWord.text)

\* manger -> mange, manges, mangeons, mangez, mangent
C22_Witness ==
    /\ Conjugated
    /\ customizingWord = wManger
    /\ FormTexts(verbForms.conjugations) =
          << <<"m","a","n","g","e">>, <<"m","a","n","g","e","s">>, <<"m","a","n","g","e","o","n","s">>, <<"m","a","n","g","e","z">>, <<"m","a","n","g","e","n","t">> >>

\* C23: an infinitive that is none of the three lemmas and does not end in
\* "er" gets no forms and no past participle, and comes back as infinitive.
C23_UnsupportedVerbs ==
    (/\ Conjugated
     /\ ~IsFixedLemma(customizingWord.text)
     /\ ~endsWith(customizingWord.text, <<"e","r">>)) =>
        /\ verbForms.conjugations = <<>>
        /\ verbForms.pp = Null
        /\ verbForms.inf = customizingWord

\* dormir: an empty paradigm.
C23_Witness ==
    /\ Conjugated
    /\ customizingWord = wDormir
    /\ verbForms = [ inf |-> wDormir, pp |-> Null, conjugations |-> <<>> ]

\* generateVariations has been applied, with the gender and the number of
\* customGender and customNumber, to a noun or an adjective that it returned
\* for the same gender and number: such a word carries their two tags last.
ReInflected ==
    /\ Varied
    /\ inflections >= 2
    /\ customizingWord.type \in {NOUN, ADJECTIVE}
    /\ LET tags == tagsOrEmpty(customizingWord)
       IN  /\ Len(tags) >= 2
           /\ tags[Len(tags) - 1] = (IF customGender = "f" THEN "feminine" ELSE "masculine")
           /\ tags[Len(tags)] = (IF customNumber = "pl" THEN "plural" ELSE "singular")

\* The second application is of an adjective to the feminine plural.
FemininePluralAdjective ==
    customizingWord.type = ADJECTIVE /\ customGender = "f" /\ customNumber = "pl"

\* C29 (as stated): applying generateVariations to its own result, with the
\* same gender and number, gives the same text, for every noun and adjective.
C29_InflectIdempotent ==
    ReInflected => variedWord.text = customizingWord.text

\* C29 (amended): the second application gives the same text for every noun,
\* and for every adjective unless the feminine plural is asked for; the
\* feminine plural of an adjective gets "es" appended again.
C29_IdempotentButFemininePlural ==
    ReInflected =>
        IF FemininePluralAdjective
        THEN variedWord.text = customizingWord.text \o <<"e","s">>
        ELSE variedWord.text = customizingWord.text

\* chat -> chatte -> chatte (feminine singular, twice)
C29_Witness ==
    /\ ReInflected
    /\ customizingWord.id = wChat.id
    /\ customGender = "f" /\ customNumber = "s"
    /\ customizingWord.text = <<"c","h","a","t","t","e">>
    /\ variedWord.text = <<"c","h","a","t","t","e">>

\* The space-delimited words of a string.
SpaceDelimitedWords(s) ==
    { SubSeq(s, r[1], r[2]) :
        r \in { x \in (1..Len(s)) \X (1..Len(s)) :
                  /\ x[1] <= x[2]
                  /\ \A k \in x[1]..x[2] : s[k] # " "
                  /\ x[1] = 1 \/ s[x[1] - 1] = " "
                  /\ x[2] = Len(s) \/ s[x[2] + 1] = " " } }

\* C30: the string pass contracts a trigger only where the trigger is a whole
\* space-delimited word: a sentence none of whose space-delimited words is a
\* trigger (or "si") is submitted as it was joined, also when one of its
\* words ends in the letters of a trigger after an accented letter.
C30_OnlyWholeWordTriggers ==
    (/\ pc = "checked"
     /\ \A w \in SpaceDelimitedWords(joinTexts(slots)) :
           toLowerCase(w) \notin RegexTriggers \cup { <<"s","i">> }) =>
        sentenceStr = joinTexts(slots)

\* The sequence after the qualifying pair at the 1-based position k is merged.
MergeAt(seq, k) == splice2(seq, k - 1, mergedSlot(seq[k], seq[k + 1]))

\* The sequences without a qualifying pair that are reached from seq by
\* merging qualifying pairs in any order.
RECURSIVE FixedPoints(_)
FixedPoints(seq) ==
    IF QualifyingPairs(seq) = {} THEN {seq}
    ELSE UNION { FixedPoints(MergeAt(seq, k)) : k \in QualifyingPairs(seq) }

\* C26: no slot that a merge produced is the first or the second slot of a
\* qualifying pair; the merges done and the qualifying pairs left add up to
\* the qualifying pairs of the initial sequence, so the loop merges exactly
\* that many times; and merging the qualifying pairs in any order leads to
\* one and the same sequence, the one the loop stops at.
C26_MergesAreIndependent ==
    /\ \A k \in QualifyingPairs(slots) : k \notin MergedSlots /\ k + 1 \notin MergedSlots
    /\ merges + Cardinality(QualifyingPairs(slots)) = Cardinality(QualifyingPairs(initial))
    /\ Cardinality(FixedPoints(initial)) = 1
    /\ FixedPoints(slots) = FixedPoints(initial)
    /\ (pc = "absent" => /\ merges = Cardinality(QualifyingPairs(initial))
                         /\ FixedPoints(initial) = {slots})

\* Two qualifying pairs of a four-slot sentence, both merged.
C26_Witness ==
    /\ pc = "absent"
    /\ Cardinality(QualifyingPairs(initial)) = 2
    /\ MergedSlots = {1, 2}
    /\ Len(slots) = 2

\* C24: in a Standard game sentencesCompleted never exceeds ten, and once it
\* is ten no new round is started: the validation of the tenth sentence
\* stays on the screen until the game is over.
C24_TenSentenceLimit ==
    settingsMode = "Standard" =>
        /\ sentencesCompleted <= SentenceLimit
        /\ sentencesCompleted = SentenceLimit => validation # Null

\* C25: the type of every slot that holds a word is the type of that word.
C25_SlotTypeIsWordType ==
    \A k \in DOMAIN slots :
        slots[k].value # Null => slots[k].type = slots[k].value.type

\* A merged slot (an auxiliary slot holding J'ai) followed by a subject
\* slot, in the round orchestration.
C25_Witness ==
    /\ pc = "game"
    /\ Len(slots) = 2
    /\ 1 \in MergedSlots
    /\ slots[1].type = VERB_AUX /\ slots[1].value.type = VERB_AUX
    /\ slots[2].type = SUBJECT /\ slots[2].value = wJe

\* The oldest timeout fires and splices: the scan of the current slots finds
\* a candidate at the index the timeout captured.
TimeoutSplices ==
    /\ mergeTimeout
    /\ LET freshCandidate == findElisionCandidate(slots)
       IN  freshCandidate # Null /\ freshCandidate.index = Head(timers).index

\* C27: the slot a timeout splices in is the merge of the two slots that are
\* at its index and after it when it fires.
C27_SplicesCurrentMerge ==
    [][TimeoutSplices =>
          LET index == Head(timers).index
          IN  slots'[index + 1] = mergedSlot(slots[index + 1], slots[index + 2])]_vars

\* The timeout that fires was scheduled in a round before the current one.
EarlierTimeoutFires == mergeTimeout /\ earlierTimers > 0

\* C28: at most one timeout is pending at any time, and a timeout scheduled
\* in one round changes neither the slots nor mergingIndex of a later round.
C28_OneTimeoutOwnRound ==
    /\ [](Len(timers) <= 1)
    /\ [][EarlierTimeoutFires => (slots' = slots /\ mergingIndex' = mergingIndex)]_vars

=============================================================================
